---- MODULE Spec2Model ----
(***************************************************************************)
(* Model of the bookeat chatbot service core:                              *)
(*   - the intent classifier cascade (VectorIntentService),                *)
(*   - the fan-out search executor and the cross-collection aggregator     *)
(*     (RestaurantAgent._multi_collection_search,                          *)
(*      RestaurantAgent._aggregate_search_results),                        *)
(*   - the request entrypoint RestaurantAgent.handle_message.              *)
(*                                                                         *)
(* Confidences and distances of the cascade are fixed-point numbers in     *)
(* units of 1/10000 (0.8 is 8000); every sampled distance is a multiple of *)
(* 100, so that the products with 0.95, 0.9 and 0.8 are exact.  Distances  *)
(* and scores of search hits are in units of 1/100000, one digit more than *)
(* the four decimals _matchScore is rounded to.                            *)
(***************************************************************************)
EXTENDS Integers, Sequences, FiniteSets, TLC

VARIABLES
    \* ---- _combine_intent_results_priority applied to free inputs
    cmb_in,            \* the four provider results handed to the combiner
    cmb_out,           \* the combiner's result (NoResult before the call)
    \* ---- recognize_intent_with_context (one request)
    ipc,               \* position inside recognize_intent_with_context
    imsg,              \* abstract features of user_message
    intent_collection_result,
    llm_intent,
    vector_intent,
    pattern_intent,
    final_intent,
    oracle_outcome,    \* what the oracle call did in this request
    consulted,         \* providers invoked so far in this request
    \* ---- _aggregate_search_results
    search_results,    \* the result map handed to the aggregator
    fetchable,         \* restaurant ids get_restaurants_by_ids can retrieve
    aggregated,        \* what the latest call returned (NoAggregated before)
    first_aggregated,  \* what the first call on this hit set returned
    \* ---- handle_message (one request) and its fan-out
    hpc,               \* position inside handle_message
    hmsg,              \* abstract features of payload.message
    hintent,           \* intent_result["intent"]
    handler,           \* the handler the request was routed to
    tasks,             \* the per-collection queries handed to asyncio.gather
    batch,             \* how _multi_collection_search ended
    fmt,               \* what the response formatter's oracle call did
    response,          \* the response text, by kind
    fault,             \* the step whose fault reached handle_message
    propagated,        \* an exception left handle_message
    \* ---- _filter_by_forbidden_tags
    flt_in,            \* the result map handed to the filter
    flt_tags,          \* forbidden_tags
    flt_out,           \* what the latest call returned (NoFiltered before)
    flt_first,         \* what the first call on this result map returned
    \* ---- semantic_menu_search_with_reasoning
    rr_points,         \* menus points by similarity to the enhanced query
    rr_profile,        \* reasoning_profile
    rr_restaurant,     \* restaurant_id (NoId for None)
    rr_results,        \* the candidates search_menus returned (results)
    rr_out,            \* how the call ended and what it returned
    \* ---- turn state shared by the requests in flight
    turn_states,       \* self.turn_states, by user id (NoTurnState: no entry)
    treq,              \* the handle_message calls in flight, by request
    \* ---- one call of a function on sampled inputs
    excl,              \* _handle_restaurant_search: reasoning profile to filtered hits
    mal,               \* _handle_restaurant_search: hits with malformed payloads
    rt,                \* handle_message: the routing of one message
    srch,              \* one per-collection search of the fan-out
    lrn,               \* what the intent service has learned
    convs,             \* the conversations collection, in two runs that differ in other users only
    avl                \* _handle_complex_availability_query on sampled candidates

cmbVars == <<cmb_in, cmb_out>>
intentVars == <<ipc, imsg, intent_collection_result, llm_intent, vector_intent,
                pattern_intent, final_intent, oracle_outcome, consulted>>
aggVars == <<search_results, fetchable, aggregated, first_aggregated>>
agentVars == <<hpc, hmsg, hintent, handler, tasks, batch, fmt, response, fault,
               propagated>>
filterVars == <<flt_in, flt_tags, flt_out, flt_first>>
rerankVars == <<rr_points, rr_profile, rr_restaurant, rr_results, rr_out>>
turnVars == <<turn_states, treq>>
callVars == <<excl, mal, rt, srch, lrn, convs, avl>>
extVars == <<filterVars, rerankVars, turnVars, callVars>>
nonCmbVars == <<intentVars, aggVars, agentVars, extVars>>
nonIntentVars == <<cmbVars, aggVars, agentVars, extVars>>
nonAggVars == <<cmbVars, intentVars, agentVars, extVars>>
\* what a step of handle_message never writes
agentFixed == <<cmbVars, intentVars, fetchable, first_aggregated, extVars>>
\* what a step of the filter, the re-ranker or the turn state never writes
coreVars == <<cmbVars, intentVars, aggVars, agentVars, callVars>>
\* what a single sampled call never writes
systemVars == <<cmbVars, intentVars, aggVars, agentVars, filterVars, rerankVars,
                turnVars>>
vars == <<systemVars, callVars>>
\* what the sampled call held in one variable never writes
exclFixed == <<systemVars, mal, rt, srch, lrn, convs, avl>>
malFixed == <<systemVars, excl, rt, srch, lrn, convs, avl>>
rtFixed == <<systemVars, excl, mal, srch, lrn, convs, avl>>
srchFixed == <<systemVars, excl, mal, rt, lrn, convs, avl>>
lrnFixed == <<systemVars, excl, mal, rt, srch, convs, avl>>
convsFixed == <<systemVars, excl, mal, rt, srch, lrn, avl>>
avlFixed == <<systemVars, excl, mal, rt, srch, lrn, convs>>

Max(a, b) == IF a >= b THEN a ELSE b
Min(a, b) == IF a <= b THEN a ELSE b

(***************************************************************************)
(* Intent taxonomy and result records                                      *)
(***************************************************************************)
General == "general_inquiry"
Intents == {"restaurant_search", "menu_inquiry", "table_inquiry",
            "voucher_inquiry", "general_inquiry"}

\* intent_definitions[...]["confidence"], in 1/10000
IntentDefConfidence(i) ==
    CASE i = "restaurant_search" -> 9000
      [] i = "menu_inquiry" -> 9000
      [] i = "table_inquiry" -> 8500
      [] i = "voucher_inquiry" -> 8000
      [] OTHER -> 5000

Result(i, c, m) == [intent |-> i, confidence |-> c, method |-> m]
\* a local name that was never assigned (reading it raises UnboundLocalError)
Unbound == [intent |-> "UNBOUND", confidence |-> 0, method |-> "UNBOUND"]
NoResult == [intent |-> "NONE", confidence |-> 0, method |-> "NONE"]

ShortCircuitConf == 8000
OverrideMinConf == 5000
OverrideRaisedConf == 7000
LowLlmConf == 7000
LlmMinConf == 5000
PatternMinConf == 5000
VectorMinConf == 6000
LockedLlmConf == 6000
LabelDistanceCutoff == 4000
DefaultPatternConf == 3000
GeneralPatternConf == 6000

(***************************************************************************)
(* Provider 1: embedding label matcher (_vector_intent_classify)           *)
(***************************************************************************)
NoHit == [kind |-> "none", intent |-> General, distance |-> 0]
HitError == [kind |-> "error", intent |-> General, distance |-> 0]
\* search_intents(limit=1, distance_threshold=0.4) keeps only distance < 0.4
LabelDistances == {1000, 1500, 1600, 3900}
LabelHits == {[kind |-> "hit", intent |-> i, distance |-> d] :
                 i \in Intents, d \in LabelDistances}

VectorIntentClassify(hit) ==
    IF hit.kind = "error"
    THEN Result(General, 0, "intent_collection_error")
    ELSE IF hit.kind = "hit" /\ hit.distance < LabelDistanceCutoff
    THEN Result(hit.intent,
                Min(((10000 - hit.distance) * 95) \div 100, 9800),
                "intent_collection")
    ELSE Result(General, 0, "intent_collection_no_match")

(***************************************************************************)
(* Provider 2: oracle classifier (_llm_based_classification)               *)
(***************************************************************************)
OracleFailures == {"unavailable", "raised", "no_choice", "unparseable", "bad_value"}
\* float(result.get("confidence", 0.5)): any number of the reply, unclamped
OracleConfidences == {0, 4000, 6000, 9000, 15000}
OracleIntents == Intents \cup {"not_in_taxonomy"}
OracleOutcomes ==
    {[kind |-> k, intent |-> General, confidence |-> 0] : k \in OracleFailures}
    \cup {[kind |-> "answered", intent |-> i, confidence |-> c] :
             i \in OracleIntents, c \in OracleConfidences}

\* an oracle failure answered at confidence 0.5 instead of 0
LlmFailureAtDefaultConfidence(out) ==
    IF out.kind \in OracleFailures
    THEN Result(General, 5000, "llm_error")
    ELSE Result(IF out.intent \in Intents THEN out.intent ELSE General,
                out.confidence, "llm_classification")

LlmBasedClassification(out) ==
    CASE out.kind = "unavailable" -> Result(General, 0, "llm_unavailable")
      [] out.kind = "raised" -> Result(General, 0, "llm_error")
      [] out.kind = "no_choice" -> Result(General, 0, "llm_no_response")
      [] out.kind = "unparseable" -> Result(General, 0, "llm_parse_error")
      \* valid JSON whose confidence is not a number, or that is not an object:
      \* float()/.get() raise, the outer handler answers llm_error
      [] out.kind = "bad_value" -> Result(General, 0, "llm_error")
      [] OTHER ->
           Result(IF out.intent \in Intents THEN out.intent ELSE General,
                  out.confidence, "llm_classification")

(***************************************************************************)
(* Provider 4: similarity fallback (_vector_based_recognition,             *)
(* _find_best_vector_match)                                                *)
(***************************************************************************)
NoDist == 0 - 1
\* search_restaurants / search_menus are called with distance_threshold=0.6
VecDistances == {1000, 5900}
ConvDistances == {1000, 3500}
ConvHits == {[intent |-> "NONE", distance |-> NoDist]}
            \cup {[intent |-> i, distance |-> d] :
                     i \in {"voucher_inquiry", "unknown"}, d \in ConvDistances}
\* values _semantic_restaurant_detection can return
SemanticScores == {0, 5000, 7500}

VecAfterRestaurant(rd) ==
    IF rd # NoDist /\ rd < 6000 /\ (10000 - rd) > 0
    THEN [m |-> Result("restaurant_search", Min(((10000 - rd) * 9) \div 10, 9500),
                       "vector_search_restaurant"),
          s |-> 10000 - rd]
    ELSE [m |-> NoResult, s |-> 0]

VecAfterMenu(b, md) ==
    IF md # NoDist /\ md < 6000 /\ (10000 - md) > b.s
    THEN [m |-> Result("menu_inquiry", Min(((10000 - md) * 9) \div 10, 9500),
                       "vector_search_menu"),
          s |-> 10000 - md]
    ELSE b

VecAfterConversation(b, conv) ==
    IF conv.distance # NoDist /\ conv.distance < 3000 /\ conv.intent \in Intents
       /\ (10000 - conv.distance) > b.s
    THEN [m |-> Result(conv.intent, Min(((10000 - conv.distance) * 8) \div 10, 9000),
                       "vector_conversation_pattern"),
          s |-> 10000 - conv.distance]
    ELSE b

VecAfterSemantic(b, sem) ==
    IF (b.m = NoResult \/ b.s < 5000) /\ sem > b.s
    THEN [m |-> Result("restaurant_search", sem, "semantic_restaurant_detection"),
          s |-> sem]
    ELSE b

FindBestVectorMatch(rd, md, conv, sem) ==
    LET b == VecAfterSemantic(
                 VecAfterConversation(VecAfterMenu(VecAfterRestaurant(rd), md), conv),
                 sem)
    IN IF b.m = NoResult THEN Result(General, 3000, "vector_no_match") ELSE b.m

(***************************************************************************)
(* Provider 3: heuristic keyword matcher (_pattern_based_recognition)      *)
(***************************************************************************)
\* restPat: a restaurant_search fallback pattern occurs in the message
\* menuKw : a menu fallback pattern / menu keyword occurs
\* restKw : one of 'nha hang', 'restaurant', 'quan' occurs
\* genPat : a general fallback pattern occurs
Messages == [restPat : BOOLEAN, menuKw : BOOLEAN, restKw : BOOLEAN, genPat : BOOLEAN]
NoMessage == [restPat |-> FALSE, menuKw |-> FALSE, restKw |-> FALSE, genPat |-> FALSE]

PatternBasedRecognition(m) ==
    IF m.restPat
    THEN Result("restaurant_search",
                (IntentDefConfidence("restaurant_search") * 7) \div 10,
                "pattern_fallback")
    ELSE IF m.menuKw
    THEN Result("menu_inquiry",
                (IntentDefConfidence("menu_inquiry") * 7) \div 10,
                "pattern_fallback")
    ELSE IF m.genPat
    THEN Result(General, GeneralPatternConf, "pattern_fallback")
    ELSE Result(General, DefaultPatternConf, "pattern_fallback")

(***************************************************************************)
(* _combine_intent_results_priority                                        *)
(***************************************************************************)
\* the override without the raise of the confidence
PatternOverrideNotRaised(pat, method) == [pat EXCEPT !.method = method]

PatternOverride(pat, method) ==
    [pat EXCEPT !.confidence = Max(pat.confidence, OverrideRaisedConf),
                !.method = method]

\* the combiner with priorities 2 and 3 exchanged
CombinePatternBeforeLlm(ic, llm, vec, pat) ==
    IF ic.confidence >= ShortCircuitConf THEN ic
    ELSE IF llm.intent = General /\ pat.intent # General
            /\ pat.confidence >= OverrideMinConf
    THEN PatternOverride(pat, "pattern_override_llm_general")
    ELSE IF llm.confidence < LowLlmConf /\ pat.intent # General
            /\ pat.confidence >= OverrideMinConf
    THEN PatternOverride(pat, "pattern_override_llm_low_confidence")
    ELSE IF pat.confidence >= PatternMinConf THEN pat
    ELSE IF llm.confidence >= LlmMinConf THEN llm
    ELSE IF vec.confidence >= VectorMinConf THEN vec
    ELSE IF ic.confidence > 0 THEN ic
    ELSE IF llm.confidence > 0 THEN llm
    ELSE IF vec.confidence > 0 THEN vec
    ELSE pat

CombineIntentResultsPriority(ic, llm, vec, pat) ==
    IF ic.confidence >= ShortCircuitConf THEN ic
    ELSE IF llm.intent = General /\ pat.intent # General
            /\ pat.confidence >= OverrideMinConf
    THEN PatternOverride(pat, "pattern_override_llm_general")
    ELSE IF llm.confidence < LowLlmConf /\ pat.intent # General
            /\ pat.confidence >= OverrideMinConf
    THEN PatternOverride(pat, "pattern_override_llm_low_confidence")
    ELSE IF llm.confidence >= LlmMinConf THEN llm
    ELSE IF pat.confidence >= PatternMinConf THEN pat
    ELSE IF vec.confidence >= VectorMinConf THEN vec
    ELSE IF ic.confidence > 0 THEN ic
    ELSE IF llm.confidence > 0 THEN llm
    ELSE IF vec.confidence > 0 THEN vec
    ELSE pat

(***************************************************************************)
(* Verification stage (_verify_intent_with_data) and its application       *)
(***************************************************************************)
Valid == [intent_valid |-> TRUE, suggest_intent |-> "NONE", suggest_confidence |-> 0]
Suggest(i, c) == [intent_valid |-> FALSE, suggest_intent |-> i, suggest_confidence |-> c]

VerifyIntentWithData(fi, m, restFound, menuFound) ==
    IF fi.intent = "restaurant_search"
    THEN IF m.menuKw THEN Suggest("menu_inquiry", 8000)
         ELSE IF ~restFound THEN Suggest(General, 5000)
         ELSE Valid
    ELSE IF fi.intent = "menu_inquiry"
    THEN IF m.restKw /\ ~m.menuKw THEN Suggest("restaurant_search", 7000)
         ELSE IF ~menuFound THEN Suggest(General, 5000)
         ELSE Valid
    ELSE Valid

\* every rejection downgrades to the catch-all intent
DowngradeToGeneral(fi, v) ==
    IF ~v.intent_valid THEN Result(General, 5000, "verified_adjusted") ELSE fi

ApplyVerification(fi, v) ==
    IF ~v.intent_valid /\ v.suggest_intent # "NONE"
    THEN Result(v.suggest_intent, v.suggest_confidence, "verified_adjusted")
    ELSE fi

(***************************************************************************)
(* recognize_intent_with_context, one step per provider call               *)
(***************************************************************************)
IntentIdle ==
    /\ ipc = "idle"
    /\ imsg = NoMessage
    /\ intent_collection_result = Unbound
    /\ llm_intent = Unbound
    /\ vector_intent = Unbound
    /\ pattern_intent = Unbound
    /\ final_intent = Unbound
    /\ oracle_outcome = "none"
    /\ consulted = {}

CmbIdle ==
    /\ cmb_in = <<>>
    /\ cmb_out = NoResult

RecognizeBegin ==
    /\ ipc = "idle"
    /\ \E m \in Messages : imsg' = m
    /\ ipc' = "label"
    /\ UNCHANGED <<intent_collection_result, llm_intent, vector_intent,
                   pattern_intent, final_intent, oracle_outcome, consulted>>
    /\ UNCHANGED nonIntentVars

\* lines 104-110: the label matcher, and the branch on its confidence
LabelMatch ==
    /\ ipc = "label"
    /\ \E hit \in LabelHits \cup {NoHit, HitError} :
          LET r == VectorIntentClassify(hit) IN
          /\ intent_collection_result' = r
          /\ IF r.confidence >= ShortCircuitConf
             THEN /\ final_intent' = r
                  /\ ipc' = "pattern"
             ELSE /\ final_intent' = final_intent
                  /\ ipc' = "oracle"
    /\ consulted' = consulted \cup {"label"}
    /\ UNCHANGED <<imsg, llm_intent, vector_intent, pattern_intent, oracle_outcome>>
    /\ UNCHANGED nonIntentVars

\* line 113
OracleClassify ==
    /\ ipc = "oracle"
    /\ \E out \in OracleOutcomes :
          /\ llm_intent' = LlmBasedClassification(out)
          /\ oracle_outcome' = out.kind
    /\ consulted' = consulted \cup {"oracle"}
    /\ ipc' = "vector"
    /\ UNCHANGED <<imsg, intent_collection_result, vector_intent, pattern_intent,
                   final_intent>>
    /\ UNCHANGED nonIntentVars

\* line 116; a failure inside _vector_based_recognition answers general at 0.3
VectorRecognize ==
    /\ ipc = "vector"
    /\ \/ \E rd \in VecDistances \cup {NoDist}, md \in VecDistances \cup {NoDist},
             conv \in ConvHits, sem \in SemanticScores :
             vector_intent' = FindBestVectorMatch(rd, md, conv, sem)
       \/ vector_intent' = Result(General, 3000, "vector_error")
    /\ consulted' = consulted \cup {"vector"}
    /\ ipc' = "pattern"
    /\ UNCHANGED <<imsg, intent_collection_result, llm_intent, pattern_intent,
                   final_intent, oracle_outcome>>
    /\ UNCHANGED nonIntentVars

\* line 119
PatternRecognize ==
    /\ ipc = "pattern"
    /\ pattern_intent' = PatternBasedRecognition(imsg)
    /\ consulted' = consulted \cup {"pattern"}
    /\ ipc' = "combine"
    /\ UNCHANGED <<imsg, intent_collection_result, llm_intent, vector_intent,
                   final_intent, oracle_outcome>>
    /\ UNCHANGED nonIntentVars

\* lines 122-133 and 155-162.  llm_intent and vector_intent are assigned only in
\* the else branch of line 111: after a short-circuit the call of line 122 reads
\* unassigned locals, raises, and the handler of line 155 answers with the
\* pattern matcher's result.
CombineResult ==
    IF llm_intent = Unbound \/ vector_intent = Unbound
    THEN [r |-> [PatternBasedRecognition(imsg) EXCEPT !.method = "pattern_fallback_error"],
          next |-> "done"]
    ELSE LET c == CombineIntentResultsPriority(intent_collection_result, llm_intent,
                                               vector_intent, pattern_intent)
         IN [r |-> c,
             next |-> IF c.method = "llm_classification" /\ c.confidence >= LockedLlmConf
                      THEN "done" ELSE "verify"]

Combine ==
    /\ ipc = "combine"
    /\ final_intent' = CombineResult.r
    /\ ipc' = CombineResult.next
    /\ UNCHANGED <<imsg, intent_collection_result, llm_intent, vector_intent,
                   pattern_intent, oracle_outcome, consulted>>
    /\ UNCHANGED nonIntentVars

\* lines 136-153
Verify ==
    /\ ipc = "verify"
    /\ \E restFound \in BOOLEAN, menuFound \in BOOLEAN :
          final_intent' = ApplyVerification(final_intent,
                              VerifyIntentWithData(final_intent, imsg, restFound, menuFound))
    /\ ipc' = "done"
    /\ UNCHANGED <<imsg, intent_collection_result, llm_intent, vector_intent,
                   pattern_intent, oracle_outcome, consulted>>
    /\ UNCHANGED nonIntentVars

\* the next request starts from fresh locals
RecognizeReturn ==
    /\ ipc = "done"
    /\ ipc' = "idle"
    /\ imsg' = NoMessage
    /\ intent_collection_result' = Unbound
    /\ llm_intent' = Unbound
    /\ vector_intent' = Unbound
    /\ pattern_intent' = Unbound
    /\ final_intent' = Unbound
    /\ oracle_outcome' = "none"
    /\ consulted' = {}
    /\ UNCHANGED nonIntentVars

(***************************************************************************)
(* Search hits as the vector service returns them                          *)
(***************************************************************************)
One == 100000
\* Python None for an identifier
NoId == 0

\* a stored payload: its "restaurant_id" and "id" keys (NoId when absent) and the
\* kind of item its other keys indicate
Payload(rid, id, item) ==
    [present |-> TRUE, restaurant_id |-> rid, id |-> id, item |-> item]
\* {} / a missing "metadata" key
EmptyMetadata == [present |-> FALSE, restaurant_id |-> NoId, id |-> NoId, item |-> "none"]
\* a scored point: payload, the payload's own "metadata" entry, similarity score
Point(payload, inner, score) == [payload |-> payload, inner |-> inner, score |-> score]

\* _format_results (search_restaurants, search_menus): the payload is nested under
\* "metadata", the distance is max(0, 1 - score)
FormatResults(point) ==
    [metadata |-> point.payload,
     restaurant_id |-> NoId,
     distance |-> Max(0, One - point.score)]

\* search_tables, search_table_layouts: dict(result.payload, distance=result.score,
\* id=result.id); the payload keys are top-level keys of the hit, "metadata" is a
\* key only if the payload has one, "distance" holds the similarity score
FlatResult(point) ==
    [metadata |-> point.inner,
     restaurant_id |-> point.payload.restaurant_id,
     distance |-> point.score]

(***************************************************************************)
(* RestaurantAgent._aggregate_search_results                               *)
(***************************************************************************)
\* entry.get("metadata") or {}
EntryMetadata(entry) == entry.metadata

ExtractRestaurantIdFromMetadata(metadata) ==
    IF ~metadata.present THEN NoId
    ELSE IF metadata.restaurant_id # NoId THEN metadata.restaurant_id
    ELSE metadata.id

DetectCollectionItemType(metadata) ==
    IF ~metadata.present THEN "menu"
    ELSE IF metadata.item = "service" THEN "service"
    ELSE IF metadata.item = "table" THEN "table"
    ELSE "menu"

NewAggregator(rid, restaurant, sources) ==
    [restaurant_id |-> rid,
     restaurant |-> restaurant,
     matched_menus |-> <<>>,
     matched_services |-> <<>>,
     matched_tables |-> <<>>,
     matched_images |-> <<>>,
     score |-> 0,
     sources |-> sources]

HasKey(aggs, rid) == \E i \in DOMAIN aggs : aggs[i].restaurant_id = rid
KeyIndex(aggs, rid) == CHOOSE i \in DOMAIN aggs : aggs[i].restaurant_id = rid
\* aggregated.get(key), created when absent
WithKey(aggs, rid) ==
    IF HasKey(aggs, rid) THEN aggs
    ELSE Append(aggs, NewAggregator(rid, EmptyMetadata, {}))

\* the score keeps the last contribution only
OverwriteScore(a, entry) ==
    [a EXCEPT !.score = Max(0, One - entry.distance)]

\* aggregator["score"] += max(0.0, 1.0 - entry.get("distance", 1.0))
AddScore(a, entry) ==
    [a EXCEPT !.score = @ + Max(0, One - entry.distance)]

SimplifyMatchedItem(metadata, distance, item_type) ==
    [metadata |-> metadata, distance |-> distance, type |-> item_type]

\* lines 938-961
RestaurantEntry(aggs, entry) ==
    LET metadata == EntryMetadata(entry)
        rid == ExtractRestaurantIdFromMetadata(metadata)
    IN IF rid = NoId THEN aggs
       ELSE IF ~HasKey(aggs, rid)
       THEN Append(aggs, AddScore(NewAggregator(rid, metadata, {"restaurants"}), entry))
       ELSE LET i == KeyIndex(aggs, rid)
                a == aggs[i]
                b == [a EXCEPT !.restaurant = IF a.restaurant.present
                                              THEN a.restaurant ELSE metadata,
                               !.sources = a.sources \cup {"restaurants"}]
            IN [aggs EXCEPT ![i] = AddScore(b, entry)]

\* lines 963-998; st.missing is missing_restaurant_ids
MenuEntry(st, entry) ==
    LET metadata == EntryMetadata(entry)
        rid == ExtractRestaurantIdFromMetadata(metadata)
    IN IF rid = NoId THEN st
       ELSE LET aggs == WithKey(st.aggs, rid)
                i == KeyIndex(aggs, rid)
                a == aggs[i]
                item_type == DetectCollectionItemType(metadata)
                item == SimplifyMatchedItem(metadata, entry.distance, item_type)
                b == IF item_type = "service"
                     THEN [a EXCEPT !.matched_services = Append(@, item),
                                    !.sources = @ \cup {"services"}]
                     ELSE IF item_type = "table"
                     THEN [a EXCEPT !.matched_tables = Append(@, item),
                                    !.sources = @ \cup {"tables"}]
                     ELSE [a EXCEPT !.matched_menus = Append(@, item),
                                    !.sources = @ \cup {"menus"}]
            IN [aggs |-> [aggs EXCEPT ![i] = AddScore(b, entry)],
                missing |-> IF a.restaurant.present THEN st.missing
                            ELSE st.missing \cup {rid}]

\* lines 1001-1025
TableEntry(aggs0, entry) ==
    LET metadata == EntryMetadata(entry)
        rid == ExtractRestaurantIdFromMetadata(metadata)
    IN IF rid = NoId THEN aggs0
       ELSE LET aggs == WithKey(aggs0, rid)
                i == KeyIndex(aggs, rid)
                item == SimplifyMatchedItem(metadata, entry.distance, "table")
                b == [aggs[i] EXCEPT !.matched_tables = Append(@, item),
                                     !.sources = @ \cup {"tables"}]
            IN [aggs EXCEPT ![i] = AddScore(b, entry)]

\* lines 1028-1056: the owner is metadata.get("restaurant_id") only
ImageEntry(aggs0, entry) ==
    LET metadata == EntryMetadata(entry)
        rid == metadata.restaurant_id
    IN IF rid = NoId THEN aggs0
       ELSE LET aggs == WithKey(aggs0, rid)
                i == KeyIndex(aggs, rid)
                item == SimplifyMatchedItem(metadata, entry.distance, "table_layout")
                b == [aggs[i] EXCEPT !.matched_images = Append(@, item),
                                     !.sources = @ \cup {"image_url"}]
            IN [aggs EXCEPT ![i] = AddScore(b, entry)]

RECURSIVE RestaurantLoop(_, _)
RestaurantLoop(aggs, entries) ==
    IF entries = <<>> THEN aggs
    ELSE RestaurantLoop(RestaurantEntry(aggs, Head(entries)), Tail(entries))

RECURSIVE MenuLoop(_, _)
MenuLoop(st, entries) ==
    IF entries = <<>> THEN st
    ELSE MenuLoop(MenuEntry(st, Head(entries)), Tail(entries))

RECURSIVE TableLoop(_, _)
TableLoop(aggs, entries) ==
    IF entries = <<>> THEN aggs
    ELSE TableLoop(TableEntry(aggs, Head(entries)), Tail(entries))

RECURSIVE ImageLoop(_, _)
ImageLoop(aggs, entries) ==
    IF entries = <<>> THEN aggs
    ELSE ImageLoop(ImageEntry(aggs, Head(entries)), Tail(entries))

\* the payload get_restaurants_by_ids retrieves for a restaurant id
RestaurantPayload(rid) == Payload(NoId, rid, "restaurant")

\* lines 1058-1063
Backfill(aggs, missing, retrievable) ==
    [i \in DOMAIN aggs |->
        IF aggs[i].restaurant_id \in (missing \cap retrievable)
        THEN [aggs[i] EXCEPT !.restaurant = RestaurantPayload(aggs[i].restaurant_id)]
        ELSE aggs[i]]

\* round(score, 4): to the nearest multiple of 0.0001, ties to the even one
Round4(x) ==
    LET q == x \div 10
        r == x % 10
    IN IF r > 5 \/ (r = 5 /\ q % 2 = 1) THEN (q + 1) * 10 ELSE q * 10

\* lines 1071-1081
RestaurantCopy(a) ==
    [id |-> IF a.restaurant.present /\ a.restaurant.id # NoId
            THEN a.restaurant.id ELSE a.restaurant_id,
     restaurant |-> a.restaurant,
     _matchedMenus |-> a.matched_menus,
     _matchedServices |-> a.matched_services,
     _matchedTables |-> a.matched_tables,
     _matchedImages |-> a.matched_images,
     _matchScore |-> Round4(a.score),
     _matchSources |-> a.sources]

\* lines 1096-1122: the matched items of one kind, tagged with their restaurant
TaggedItems(a, field) ==
    [k \in DOMAIN a[field] |->
        [metadata |-> a[field][k].metadata,
         _restaurantId |-> RestaurantCopy(a).id,
         _matchDistance |-> a[field][k].distance]]

RECURSIVE FlatItems(_, _)
FlatItems(aggs, field) ==
    IF aggs = <<>> THEN <<>>
    ELSE TaggedItems(Head(aggs), field) \o FlatItems(Tail(aggs), field)

\* list.sort(key=_matchScore, reverse=True) is stable: equal scores keep their order
InsertByScore(sorted, r) ==
    LET k == Cardinality({i \in DOMAIN sorted : sorted[i]._matchScore >= r._matchScore})
    IN SubSeq(sorted, 1, k) \o <<r>> \o SubSeq(sorted, k + 1, Len(sorted))

RECURSIVE SortByMatchScore(_)
SortByMatchScore(rs) ==
    IF rs = <<>> THEN <<>>
    ELSE InsertByScore(SortByMatchScore(SubSeq(rs, 1, Len(rs) - 1)), rs[Len(rs)])

NoAggregated ==
    [called |-> FALSE, restaurants |-> <<>>, menus |-> <<>>, services |-> <<>>,
     tables |-> <<>>, images |-> <<>>]

AggregateSearchResults(sr, retrievable) ==
    LET afterRestaurants == RestaurantLoop(<<>>, sr.restaurants)
        afterMenus == MenuLoop([aggs |-> afterRestaurants, missing |-> {}], sr.menus)
        afterTables == TableLoop(afterMenus.aggs, sr.tables)
        afterImages == ImageLoop(afterTables, sr.image_url)
        aggs == Backfill(afterImages, afterMenus.missing, retrievable)
    IN [called |-> TRUE,
        restaurants |-> SortByMatchScore([i \in DOMAIN aggs |-> RestaurantCopy(aggs[i])]),
        menus |-> FlatItems(aggs, "matched_menus"),
        services |-> FlatItems(aggs, "matched_services"),
        tables |-> FlatItems(aggs, "matched_tables"),
        images |-> FlatItems(aggs, "matched_images")]

\* missing_restaurant_ids when the batch lookup is issued (lines 1058-1059)
MissingRestaurantIds(sr) ==
    MenuLoop([aggs |-> RestaurantLoop(<<>>, sr.restaurants), missing |-> {}],
             sr.menus).missing

(***************************************************************************)
(* The aggregator on sampled result maps                                   *)
(***************************************************************************)
MaxHits == 2

\* sequences of at most n distinct elements of S: a search returns a point once
DistinctSeqs(S, n) ==
    UNION {{f \in [1..k -> S] : \A i, j \in 1..k : i # j => f[i] # f[j]} : k \in 0..n}

\* one restaurant point per restaurant id (the point id is the restaurant id)
RestaurantPoints ==
    {Point(Payload(NoId, 1, "restaurant"), EmptyMetadata, 80000),
     Point(Payload(NoId, 2, "restaurant"), EmptyMetadata, 69996)}
\* points of the menus collection: dishes, services and tables of a restaurant;
\* the last payload has its own "id" and no "restaurant_id"
MenuPoints ==
    {Point(Payload(1, 11, "menu"), EmptyMetadata, 70000),
     Point(Payload(1, 12, "menu"), EmptyMetadata, 50000),
     Point(Payload(2, 13, "table"), EmptyMetadata, 55000),
     Point(Payload(3, 14, "service"), EmptyMetadata, 60000),
     Point(Payload(NoId, 15, "menu"), EmptyMetadata, 65000)}
\* table points as search_tables returns them; the second payload has a
\* "metadata" entry of its own
TablePoints ==
    {Point(Payload(1, 21, "table"), EmptyMetadata, 50000),
     Point(Payload(2, 22, "table"), Payload(2, 22, "table"), 40000)}
LayoutPoints ==
    {Point(Payload(1, 31, "table_layout"), EmptyMetadata, 30000),
     Point(Payload(3, 32, "table_layout"), Payload(3, 32, "table_layout"), 45000)}
RetrievableSets == {{}, {1, 2, 3}}

Formatted(points) == [i \in DOMAIN points |-> FormatResults(points[i])]
Flat(points) == [i \in DOMAIN points |-> FlatResult(points[i])]

NoSearchResults ==
    [restaurants |-> <<>>, menus |-> <<>>, tables |-> <<>>, image_url |-> <<>>]
Collections == {"restaurants", "menus", "tables", "image_url"}

AggIdle ==
    /\ search_results = NoSearchResults
    /\ fetchable = {}
    /\ aggregated = NoAggregated
    /\ first_aggregated = NoAggregated


(***************************************************************************)
(* RestaurantAgent._filter_by_forbidden_tags                               *)
(***************************************************************************)
\* str.lower() on the sampled words
Lower(w) ==
    CASE w = "Beef" -> "beef"
      [] w = "Seafood" -> "seafood"
      [] OTHER -> w

\* a "tags" / "ingredient_tags" value as stored: a list, one plain string, a
\* string holding a list literal, or something else (None, a number)
TagList(ws) == [kind |-> "list", vals |-> ws]
TagString(w) == [kind |-> "str", vals |-> {w}]
TagLiteral(ws) == [kind |-> "literal", vals |-> ws]
TagOther == [kind |-> "other", vals |-> {}]

\* the isinstance / ast.literal_eval normalisation of a tags value to a list
NormalizeTags(v) ==
    CASE v.kind = "list" -> v.vals
      [] v.kind = "str" -> v.vals
      [] v.kind = "literal" -> v.vals
      [] OTHER -> {}

\* a stored menu/restaurant payload with the attributes the filter reads; a
\* text attribute is the set of words that occur in it
TaggedPayload(rid, id, item, ingredient_tags, tags, name, description) ==
    [present |-> TRUE, restaurant_id |-> rid, id |-> id, item |-> item,
     ingredient_tags |-> ingredient_tags, tags |-> tags,
     name |-> name, description |-> description, ingredients |-> {}]

\* forbidden_lower in name or ... in description or ... in ingredients
InText(forbidden_lower, metadata) ==
    \E w \in metadata.name \cup metadata.description \cup metadata.ingredients :
        Lower(w) = forbidden_lower

\* has_forbidden of one menus hit
HasForbidden(item, forbidden_tags) ==
    LET metadata == item.metadata
        tags == NormalizeTags(metadata.tags)
        ingredient_tags == NormalizeTags(metadata.ingredient_tags)
    IN \E forbidden \in forbidden_tags :
          LET forbidden_lower == Lower(forbidden)
          IN \/ \E tag \in ingredient_tags : forbidden_lower = Lower(tag)
             \/ \E tag \in tags : forbidden_lower = Lower(tag)
             \/ InText(forbidden_lower, metadata)

\* the list is edited while it is iterated: the hit after a removed one is skipped
RECURSIVE RemoveWhileIterating(_, _)
RemoveWhileIterating(results, forbidden_tags) ==
    IF results = <<>> THEN <<>>
    ELSE IF HasForbidden(Head(results), forbidden_tags)
         THEN IF Len(results) = 1 THEN <<>>
              ELSE <<results[2]>>
                   \o RemoveWhileIterating(SubSeq(results, 3, Len(results)),
                                           forbidden_tags)
         ELSE <<Head(results)>> \o RemoveWhileIterating(Tail(results), forbidden_tags)

\* filtered_items of the "menus" collection
FilterMenus(results, forbidden_tags) ==
    SelectSeq(results, LAMBDA item : ~HasForbidden(item, forbidden_tags))

FilterByForbiddenTags(sr, forbidden_tags) ==
    IF forbidden_tags = {} THEN sr
    ELSE [c \in DOMAIN sr |->
             IF c = "menus" THEN FilterMenus(sr[c], forbidden_tags) ELSE sr[c]]

\* sampled points for the filter
FilterRestaurantPoints ==
    {Point(TaggedPayload(NoId, 1, "restaurant", TagOther, TagOther,
                         {"steakhouse"}, {"Beef", "seafood"}), EmptyMetadata, 80000)}
FilterMenuPoints ==
    {Point(TaggedPayload(1, 11, "menu", TagList({"Beef"}), TagOther,
                         {"pho"}, {}), EmptyMetadata, 70000),
     Point(TaggedPayload(1, 12, "menu", TagOther, TagString("seafood"),
                         {"hotpot"}, {}), EmptyMetadata, 65000),
     Point(TaggedPayload(1, 13, "menu", TagLiteral({"pork"}), TagList({"spicy"}),
                         {"banhmi"}, {"Seafood"}), EmptyMetadata, 60000),
     Point(TaggedPayload(2, 14, "menu", TagList({"pork"}), TagList({"spicy"}),
                         {"bun"}, {"noodle"}), EmptyMetadata, 55000),
     Point(TaggedPayload(2, 15, "service", TagOther, TagOther,
                         {"catering"}, {"beef"}), EmptyMetadata, 50000),
     Point(TaggedPayload(2, 16, "table", TagOther, TagOther,
                         {"seafood"}, {"window"}), EmptyMetadata, 45000)}
FilterTablePoints ==
    {Point(TaggedPayload(1, 21, "table", TagOther, TagList({"beef"}),
                         {"beef"}, {}), EmptyMetadata, 50000)}
ExclusionSets == {{}, {"beef", "seafood"}, {"Seafood"}, {"spicy"}}

(***************************************************************************)
(* VectorService.search_menus and semantic_menu_search_with_reasoning      *)
(***************************************************************************)
\* limit and distance_threshold of the call, and the widening of the candidate
\* search (limit * 3, distance_threshold * 1.2)
RerankLimit == 2
RerankThreshold == 60000
CandidateFactor == 3
SearchFactor == 5

Take(seq, n) == SubSeq(seq, 1, Min(Len(seq), n))

\* search_menus on the points the client returns, best first
SearchMenus(points, restaurant_id, limit, distance_threshold) ==
    LET formatted_results == Formatted(Take(points, limit * SearchFactor))
        of_restaurant ==
            IF restaurant_id # NoId
            THEN SelectSeq(formatted_results,
                           LAMBDA r : r.metadata.restaurant_id = restaurant_id)
            ELSE formatted_results
        filtered_results ==
            SelectSeq(of_restaurant, LAMBDA r : r.distance < distance_threshold)
    IN Take(filtered_results, limit)

\* a menus payload with the attributes the boost rules read: its tags, the flags
\* that are set (hot: category, name or description names a hot dish;
\* bad_category: "category" is not a string) and the words of its cuisine fields
RerankPayload(rid, id, tags, flags, cuisine) ==
    [present |-> TRUE, restaurant_id |-> rid, id |-> id, item |-> "menu",
     tags |-> tags, flags |-> flags, cuisine |-> cuisine]

Profile(diet, occasion, temperature, spice_level, constraints_text, cuisine, loc) ==
    [diet_profile |-> diet, occasion |-> occasion, temperature |-> temperature,
     spice_level |-> spice_level, constraints_text |-> constraints_text,
     cuisine |-> cuisine, is_local_specialty |-> loc]

Bonus(cond, points) == IF cond THEN points ELSE 0

\* boost_score of one candidate
BoostScore(profile, metadata) ==
    LET tags == NormalizeTags(metadata.tags)
        non_spicy == "non_spicy" \in tags \/ "is_non_spicy" \in metadata.flags
    IN  Bonus("high_protein" \in profile.diet_profile /\ "high_protein" \in tags, 15000)
      + Bonus("low_carb" \in profile.diet_profile /\ "low_carb" \in tags, 12000)
      + Bonus("low_fat" \in profile.diet_profile /\ "low_fat" \in tags, 12000)
      + Bonus("light_meal" \in profile.diet_profile /\ "light_meal" \in tags, 10000)
      + Bonus(profile.occasion = "gym" /\ "high_protein" \in tags, 10000)
      + Bonus(profile.occasion = "sick" /\ "good_when_sick" \in tags, 15000)
      + Bonus(profile.occasion = "comfort" /\ "comfort_food" \in tags, 10000)
      + Bonus(profile.occasion = "celebration" /\ "celebration" \in tags, 8000)
      + Bonus(profile.temperature = "hot" /\ "hot" \in metadata.flags, 12000)
      + (IF profile.spice_level = "spicy"
            /\ ("is_spicy" \in metadata.flags \/ "spicy" \in tags)
         THEN 8000
         ELSE Bonus(profile.spice_level \in {"mild", "medium"} /\ non_spicy, 6000))
      + Bonus("chay" \in profile.constraints_text
              /\ ("vegetarian" \in tags \/ "is_vegetarian" \in metadata.flags), 10000)
      + Bonus("it dau" \in profile.constraints_text /\ "low_fat" \in tags, 8000)
      + Bonus("khong cay" \in profile.constraints_text /\ non_spicy, 8000)
      + 8000 * Cardinality({c \in profile.cuisine :
                               \E w \in metadata.cuisine : Lower(c) = Lower(w)})
      + Bonus(profile.is_local_specialty /\ "is_local_specialty" \in metadata.flags,
              10000)

\* (metadata.get("category") or "").lower() with a category that is not a string
BoostRaises(profile, results) ==
    \E i \in DOMAIN results :
        /\ "bad_category" \in results[i].metadata.flags
        /\ profile.temperature = "hot" \/ profile.cuisine # {}

\* the candidate with its final distance, score and boost_score
Boosted(profile, result) ==
    LET base_score == Max(0, One - result.distance)
        boost_score == BoostScore(profile, result.metadata)
        final_score == Min(One, base_score + boost_score)
    IN [metadata |-> result.metadata,
        restaurant_id |-> result.restaurant_id,
        distance |-> Max(0, One - final_score),
        score |-> final_score,
        boost_score |-> boost_score]

\* the candidates keep the order of the candidate search
AppendUnsorted(sorted, r) == Append(sorted, r)

\* filtered_results.sort(key=score, reverse=True) is stable
InsertByFinalScore(sorted, r) ==
    LET k == Cardinality({i \in DOMAIN sorted : sorted[i].score >= r.score})
    IN SubSeq(sorted, 1, k) \o <<r>> \o SubSeq(sorted, k + 1, Len(sorted))

RECURSIVE SortByFinalScore(_)
SortByFinalScore(rs) ==
    IF rs = <<>> THEN <<>>
    ELSE InsertByFinalScore(SortByFinalScore(SubSeq(rs, 1, Len(rs) - 1)), rs[Len(rs)])

\* final_results: below the threshold, at most limit
FinalResults(filtered_results, limit, distance_threshold) ==
    Take(SelectSeq(filtered_results, LAMBDA r : r.distance < distance_threshold),
         limit)

\* step 2: results = await self.search_menus(query_text, ...)
RerankCandidates(points, restaurant_id, limit, distance_threshold) ==
    SearchMenus(points, restaurant_id, limit * CandidateFactor,
                (distance_threshold * 12) \div 10)

\* steps 3-5 on the candidates
Rerank(profile, results, limit, distance_threshold) ==
    FinalResults(SortByFinalScore([i \in DOMAIN results |-> Boosted(profile, results[i])]),
                 limit, distance_threshold)

\* sampled menus points; the score is the similarity to the enhanced query
RerankPoints ==
    {Point(RerankPayload(1, 11, TagList({"high_protein"}), {}, {}),
           EmptyMetadata, 70000),
     Point(RerankPayload(1, 12, TagString("good_when_sick"), {"hot"}, {}),
           EmptyMetadata, 50000),
     Point(RerankPayload(2, 13, TagOther, {}, {}),
           EmptyMetadata, 35000),
     Point(RerankPayload(2, 14, TagLiteral({"high_protein", "low_fat"}),
                         {"is_local_specialty"}, {}),
           EmptyMetadata, 45000),
     Point(RerankPayload(1, 15, TagList({"non_spicy"}), {"bad_category"},
                         {"Vietnamese"}),
           EmptyMetadata, 30000),
     Point(RerankPayload(2, 16, TagList({"spicy"}), {"is_spicy"}, {}),
           EmptyMetadata, 20000)}
\* points by similarity to the raw user_message (the fallback search)
FallbackPoints ==
    {Point(RerankPayload(1, 11, TagList({"high_protein"}), {}, {}),
           EmptyMetadata, 60000),
     Point(RerankPayload(2, 17, TagOther, {}, {}),
           EmptyMetadata, 55000)}

\* the client returns the points best first
RECURSIVE BestFirst(_)
BestFirst(S) ==
    IF S = {} THEN <<>>
    ELSE LET m == CHOOSE x \in S : \A y \in S : y.score <= x.score
         IN <<m>> \o BestFirst(S \ {m})

NoProfile == Profile({}, "any", "any", "any", {}, {}, FALSE)
Profiles ==
    {NoProfile,
     Profile({"high_protein", "low_fat"}, "gym", "any", "any", {}, {}, TRUE),
     Profile({}, "sick", "hot", "mild", {"khong cay"}, {}, FALSE),
     Profile({}, "any", "any", "spicy", {}, {"vietnamese"}, FALSE)}

NoReranked == [path |-> "none", results |-> <<>>]
RerankIdle ==
    /\ rr_points = <<>>
    /\ rr_profile = NoProfile
    /\ rr_restaurant = NoId
    /\ rr_results = <<>>
    /\ rr_out = NoReranked

(***************************************************************************)
(* Turn state: handle_message, _resolve_restaurant_reference,              *)
(* _update_turn_state, _handle_general_inquiry                             *)
(***************************************************************************)
MaxUsers == 2
MaxRequests == 2
Users == 1..MaxUsers
Requests == 1..MaxRequests

NoName == "None"
NoIntent == "None"
\* no entry for the user in self.turn_states
NoTurnState == [present |-> FALSE, last_restaurant_id |-> NoId,
                last_restaurant_name |-> NoName, last_intent |-> NoIntent]
\* lines 52-56, 177-181: the entry a user starts with
NewTurnState == [present |-> TRUE, last_restaurant_id |-> NoId,
                 last_restaurant_name |-> NoName, last_intent |-> NoIntent]

\* entities as extract_entities_with_context returns them
Entities(rid, name) == [restaurant_id |-> rid, restaurant_name |-> name]
NoEntities == Entities(NoId, NoName)
EntityChoices == {NoEntities, Entities(5, NoName), Entities(7, "Seoul BBQ")}

\* payload.message: whether it holds a reference keyword ("nha hang do", ...), a
\* booking keyword, the complex-availability shape
TurnMessages == [reference : BOOLEAN, booking : BOOLEAN, complex : {FALSE},
                 topic : {"other"}]
NoTurnMessage == [reference |-> FALSE, booking |-> FALSE, complex |-> FALSE,
                  topic |-> "other"]
TurnIntents == {"restaurant_search", General}
NoUser == 0

\* the reference never replaces an id the entities already carry
ResolveKeepsExtractedId(m, entities, ts) ==
    IF ~m.reference THEN entities
    ELSE IF ts.last_restaurant_id # NoId /\ entities.restaurant_id = NoId
         THEN [entities EXCEPT !.restaurant_id = ts.last_restaurant_id]
         ELSE entities

\* _resolve_restaurant_reference; ts is self.turn_states.get(user_id, {})
ResolveRestaurantReference(m, entities, ts) ==
    IF ~m.reference THEN entities
    ELSE IF ts.last_restaurant_id # NoId
         THEN [entities EXCEPT !.restaurant_id = ts.last_restaurant_id]
         ELSE entities

\* _handle_general_inquiry, lines 1708-1713: the restaurant_id the search is
\* scoped to
GeneralScope(ts) ==
    IF ts.present /\ ts.last_restaurant_id # NoId THEN ts.last_restaurant_id
    ELSE NoId

\* _update_turn_state; name is what _extract_restaurant_name_from_response finds
UpdateTurnState(ts, intent, entities, name) ==
    LET t0 == IF ts.present THEN ts ELSE NewTurnState
        t1 == [t0 EXCEPT !.last_intent = intent]
    IN IF intent \in {"restaurant_search", "menu_inquiry"}
          /\ entities.restaurant_id # NoId
       THEN [t1 EXCEPT !.last_restaurant_id = entities.restaurant_id,
                       !.last_restaurant_name =
                           IF name # NoName THEN name ELSE @]
       ELSE t1

\* the sampled inputs of the requests: one user's consecutive requests draw from
\* the wider sets
SeqMessages == TurnMessages
SeqEntities == EntityChoices
SeqNames == {NoName, "Seoul BBQ"}
ConcMessages == {m \in TurnMessages : ~m.booking}
ConcEntities == {NoEntities, Entities(5, NoName)}
ConcNames == {NoName}

\* a handle_message call that has not started; wrote: a step of this call changed
\* self.turn_states
NoRequest ==
    [pc |-> "idle", user |-> NoUser, msg |-> NoTurnMessage, intent |-> NoIntent,
     extracted |-> NoEntities, entities |-> NoEntities,
     scope |-> NoId, route |-> "none", handler_failed |-> FALSE,
     outcome |-> "none", wrote |-> FALSE]

\* the call has returned or was left by an exception: its locals are gone
Ended(q, outcome) ==
    [NoRequest EXCEPT !.pc = "done", !.user = q.user, !.outcome = outcome,
                      !.handler_failed = q.handler_failed, !.wrote = q.wrote]

TurnIdle ==
    /\ turn_states = [u \in Users |-> NoTurnState]
    /\ treq = [r \in Requests |-> NoRequest]

(***************************************************************************)
(* The exclusion set of a request: universal_query_reasoning,              *)
(* _extract_forbidden_tags and their use in _handle_restaurant_search      *)
(***************************************************************************)
\* a text is the set of the code's keywords that occur in it (lower-cased,
\* written here without their diacritics)
\* the keys of the profile _extract_forbidden_tags reads
ReasoningProfile(constraints_text, summary) ==
    [constraints_text |-> constraints_text, summary |-> summary]

\* the profile oracle's reply: the call raised, no choice came back, the content
\* is not JSON, is JSON but no object, or is a JSON object
ReplyFailures == {"raised", "no_choice", "not_json", "not_object"}
Reply(kind, constraints_text, summary) ==
    [kind |-> kind, constraints_text |-> constraints_text, summary |-> summary]

\* every fallback is {**_default_profile, "summary": user_message, ...}
UniversalQueryReasoning(user_message, reply) ==
    IF reply.kind = "parsed"
    THEN ReasoningProfile(reply.constraints_text, reply.summary)
    ELSE ReasoningProfile({}, user_message)

ExtractForbiddenTags(reasoning_profile) ==
    LET constraints_text == reasoning_profile.constraints_text
        summary == reasoning_profile.summary
        constraints_text_str == UNION constraints_text
        Beef == {"beef", "thit bo", "bo"}
        Seafood == {"seafood", "hai san", "shrimp", "tom", "crab", "cua", "squid",
                    "muc", "clam", "ngheu", "scallop", "so", "so diep", "snail", "oc",
                    "oyster", "hau"}
        Meat == {"beef", "pork", "chicken", "meat", "thit bo", "thit heo", "thit ga",
                 "thit"}
        \* any(keyword in text for keyword in keywords) then extend(tags)
        When(text, keywords, tags) == IF text \cap keywords # {} THEN tags ELSE {}
        \* the loop over constraints_text, lines 657-720
        ConstraintTags(c) ==
            When(c, {"tranh thit bo", "kieng bo", "khong bo", "tranh bo"}, Beef)
            \cup When(c, {"tranh hai san", "kieng hai san", "khong hai san"}, Seafood)
            \cup When(c, {"tranh tom", "kieng tom"}, {"shrimp", "tom"})
            \cup When(c, {"tranh cua", "kieng cua"}, {"crab", "cua"})
            \cup When(c, {"tranh muc", "kieng muc"}, {"squid", "muc"})
            \cup When(c, {"khong cay", "tranh cay", "kieng cay", "khong qua cay",
                          "it cay", "han che cay", "khong ot"},
                      {"spicy", "cay", "ot", "pepper", "chili"})
            \cup When(c, {"tranh do chien", "tranh do xao", "kieng chien xao",
                          "han che do chien xao", "khong chien", "khong xao"},
                      {"fried", "deep_fried", "chien", "xao", "pan_fried"})
            \cup When(c, {"it duong", "khong duong", "tranh duong", "kieng duong",
                          "tranh do ngot", "it ngot", "khong ngot", "tieu duong"},
                      {"sweet", "dessert", "sugar", "duong", "ngot", "caramel"})
            \cup When(c, {"it muoi", "khong muoi", "tranh muoi", "huyet ap cao",
                          "tang huyet ap", "it man", "khong man"},
                      {"man", "muoi", "salty"})
            \cup When(c, {"tranh ruou", "kieng ruou", "khong ruou", "gan yeu",
                          "viem gan"},
                      {"alcohol", "ruou", "beer", "bia", "wine"})
        by_constraint == UNION {ConstraintTags(c) : c \in constraints_text}
        is_scar_condition ==
            \/ summary \cap {"seo", "vet mo", "moi phau thuat", "phau thuat",
                             "vet thuong"} # {}
            \/ constraints_text_str \cap {"seo", "vet mo"} # {}
        is_vegetarian ==
            \/ summary \cap {"an chay", "do chay", "vegetarian", "vegan"} # {}
            \/ constraints_text_str \cap {"an chay", "do chay", "khong an thit"} # {}
        is_gout ==
            \/ summary \cap {"gout", "dau khop"} # {}
            \/ constraints_text_str \cap {"gout", "dau khop", "thit do"} # {}
        scar == IF is_scar_condition
                THEN (IF {"beef", "thit bo"} \cap by_constraint = {} THEN Beef ELSE {})
                     \cup (IF {"seafood", "hai san"} \cap by_constraint = {}
                           THEN Seafood ELSE {})
                ELSE {}
        vegetarian == IF is_vegetarian THEN Meat ELSE {}
        gout == IF is_gout
                THEN {"beef", "thit bo", "pork", "thit heo", "lamb", "thit cuu"}
                ELSE {}
        generic == IF ~is_scar_condition /\ ~is_gout
                      /\ \E c \in constraints_text :
                            c \cap {"khong thit", "tranh thit", "kieng thit",
                                    "khong co thit"} # {}
                   THEN Meat ELSE {}
    IN by_constraint \cup scar \cup vegetarian \cup gout \cup generic

\* sampled requests: the keywords of payload.message, the oracle's replies
ExclMessages == {{}, {"moi phau thuat", "phau thuat"}, {"an chay"}, {"gout"}}
ExclReplies ==
    {Reply(k, {}, {}) : k \in ReplyFailures}
    \cup {Reply("parsed", cs, sm) :
             cs \in SUBSET {{"tranh thit bo", "tranh thit"}, {"khong cay"},
                            {"an chay"}, {"tranh thit"}},
             sm \in {{}, {"seo"}}}
\* the hits of the fan-out
ExclResults ==
    {[restaurants |-> Formatted(rs), menus |-> Formatted(ms),
      tables |-> <<>>, image_url |-> <<>>] :
        rs \in DistinctSeqs(FilterRestaurantPoints, 1),
        ms \in DistinctSeqs(FilterMenuPoints, 1)}

NoExclusion ==
    [pc |-> "idle", message |-> {}, reply |-> Reply("raised", {}, {}),
     reasoning_profile |-> ReasoningProfile({}, {}), forbidden_tags |-> {},
     search_results |-> NoSearchResults, filtered |-> NoSearchResults]

(***************************************************************************)
(* Hits with a malformed payload in the filter and the aggregator          *)
(***************************************************************************)
\* a "name" / "description" value that is no string (a number, a list)
NotAString == {"<number>"}

\* (metadata.get("name") or "").lower() and the same for description raise
\* AttributeError on a value that is no string; every menus hit is visited
FilterRaises(sr, forbidden_tags) ==
    /\ forbidden_tags # {}
    /\ \E i \in DOMAIN sr.menus :
          \/ sr.menus[i].metadata.name = NotAString
          \/ sr.menus[i].metadata.description = NotAString

\* menus points: two dishes, a dish whose name is a number, a payload without
\* "id" and "restaurant_id"
MalformedMenuPoints ==
    {Point(TaggedPayload(1, 11, "menu", TagList({"Beef"}), TagOther,
                         {"pho"}, {}), EmptyMetadata, 70000),
     Point(TaggedPayload(2, 14, "menu", TagList({"pork"}), TagList({"spicy"}),
                         {"bun"}, {"noodle"}), EmptyMetadata, 55000),
     Point(TaggedPayload(1, 17, "menu", TagOther, TagOther,
                         NotAString, {}), EmptyMetadata, 60000),
     Point(TaggedPayload(NoId, NoId, "menu", TagOther, TagList({"spicy"}),
                         {"che"}, {}), EmptyMetadata, 50000)}

\* outcome: "none", "data" (the hits went on to the formatter), "error" (the
\* handler's except clause answered)
NoMalformed ==
    [pc |-> "idle", search_results |-> NoSearchResults, forbidden_tags |-> {},
     filtered |-> NoSearchResults, aggregated |-> NoAggregated, outcome |-> "none"]

(***************************************************************************)
(* Routing of a message: _is_complex_availability_query and the branch of  *)
(* handle_message                                                          *)
(***************************************************************************)
\* user_message is the set of cue groups of which it contains a keyword:
\* "restaurant", "availability", "cuisine", "time"; intent is not read
IsComplexAvailabilityQuery(user_message, intent) ==
    LET has_restaurant == "restaurant" \in user_message
        has_availability == "availability" \in user_message
        has_cuisine == "cuisine" \in user_message
        has_time == "time" \in user_message
    IN has_restaurant /\ has_availability /\ (has_cuisine \/ has_time)

NoRouting ==
    [pc |-> "idle", message |-> {}, booking |-> FALSE, intent |-> "none",
     handler |-> "none"]

(***************************************************************************)
(* The per-collection searches of the fan-out                              *)
(***************************************************************************)
\* search_restaurants on the points the client returns
SearchRestaurants(points, limit, distance_threshold) ==
    LET formatted_results == Formatted(Take(points, limit * CandidateFactor))
        filtered_results ==
            SelectSeq(formatted_results, LAMBDA r : r.distance < distance_threshold)
    IN Take(filtered_results, limit)

\* search_tables (item_type "table", menus collection) and search_table_layouts
\* (item_type "table_layout", image_url collection).  "type" and "restaurant_id"
\* are payload keys that dict(result.payload, ...) copies into the hit, so the two
\* manual filters are taken on the point; the distance filter reads the hit's
\* "distance" key, which holds result.score
SearchTables(points, item_type, restaurant_id, limit, distance_threshold) ==
    LET results == Take(points, limit * SearchFactor)
        of_type ==
            SelectSeq(results,
                      LAMBDA p : p.payload.item = item_type \/ p.inner.item = item_type)
        of_restaurant ==
            IF restaurant_id # NoId
            THEN SelectSeq(of_type,
                           LAMBDA p : \/ p.payload.restaurant_id = restaurant_id
                                      \/ p.inner.restaurant_id = restaurant_id)
            ELSE of_type
        filtered_tables ==
            SelectSeq(Flat(of_restaurant), LAMBDA t : t.distance < distance_threshold)
    IN Take(filtered_tables, limit)

\* what the client can return for a collection; the menus collection holds the
\* dishes, services and tables; a similarity score can be negative
IndexPoints(collection) ==
    CASE collection = "restaurants" -> RestaurantPoints
      [] collection = "menus" -> MenuPoints
      [] collection = "tables" ->
            MenuPoints \cup TablePoints
                \cup {Point(Payload(1, 23, "table"), EmptyMetadata, 90000),
                      Point(Payload(2, 24, "table"), EmptyMetadata, 0 - 5000)}
      [] collection = "image_url" -> LayoutPoints

\* the search of one collection as _multi_collection_search issues it
SearchCollection(collection, points, restaurant_id, limit, distance_threshold) ==
    CASE collection = "restaurants" ->
            SearchRestaurants(points, limit, distance_threshold)
      [] collection = "menus" ->
            SearchMenus(points, restaurant_id, limit, distance_threshold)
      [] collection = "tables" ->
            SearchTables(points, "table", restaurant_id, limit, distance_threshold)
      [] collection = "image_url" ->
            SearchTables(points, "table_layout", restaurant_id, limit,
                         distance_threshold)

NoSearch ==
    [pc |-> "idle", collection |-> "none", points |-> <<>>, restaurant_id |-> NoId,
     distance_threshold |-> 0, hits |-> <<>>]

(***************************************************************************)
(* VectorIntentService: the feedback learning loop                         *)
(***************************************************************************)
\* len(self.intent_feedback_dataset) is cut to its last 1000 entries; the model
\* keeps the length only, cut at MaxFeedback
MaxFeedback == 2
LearnIntents == {General, "restaurant_search"}
LearnMessages == {"m1", "m2"}

\* a learned message with the intent it had been resolved to when it was learned
Learned(user_message, intent) == [message |-> user_message, resolved |-> intent]

\* _update_intent_embedding_from_feedback: nearest is the intent of the first
\* result of search_intents(successful_message, limit=1, distance_threshold=1.0),
\* "none" for an empty result; resolved is the intent the message was resolved to
UpdateIntentEmbeddingFromFeedback(examples, intent, successful_message, nearest, resolved) ==
    IF nearest = "none" THEN examples
    ELSE LET current_examples == examples[nearest]
         IN IF successful_message \notin {x.message : x \in current_examples}
            THEN [examples EXCEPT
                     ![intent] = current_examples
                                     \cup {Learned(successful_message, resolved)}]
            ELSE examples

\* learn_from_interaction on the state l of the service
LearnFromInteraction(l, user_message, intent, response_success, nearest) ==
    LET interactions == l.interactions \cup {intent}
        patterns ==
            IF response_success /\ intent # General
            THEN l.patterns \cup {Learned(user_message, intent)}
            ELSE l.patterns
        feedback ==
            IF ~response_success \/ (intent = General /\ ~response_success)
            THEN Min(l.feedback + 1, MaxFeedback)
            ELSE l.feedback
        examples ==
            IF response_success /\ feedback > 0
            THEN UpdateIntentEmbeddingFromFeedback(l.examples, intent, user_message,
                                                   nearest, intent)
            ELSE l.examples
    IN [interactions |-> interactions, patterns |-> patterns, feedback |-> feedback,
        examples |-> examples]

\* store_intent_feedback; the update it schedules with asyncio.create_task is
\* taken with the call
StoreIntentFeedback(l, user_message, predicted_intent, correct_intent, nearest) ==
    [l EXCEPT
        !.feedback = Min(l.feedback + 1, MaxFeedback),
        !.examples =
            IF correct_intent # "none" /\ correct_intent # predicted_intent
            THEN UpdateIntentEmbeddingFromFeedback(l.examples, correct_intent,
                                                   user_message, nearest,
                                                   predicted_intent)
            ELSE l.examples]

\* self.intent_feedback_dataset = [], no stored preference, the examples of the
\* intent definitions only
NothingLearned ==
    [interactions |-> {}, patterns |-> {}, feedback |-> 0,
     examples |-> [i \in LearnIntents |-> {}]]

(***************************************************************************)
(* VectorService: the conversations collection                             *)
(***************************************************************************)
\* int(time.time()) runs over 1..MaxTime; client.scroll(limit=100) and the limit
\* of the callers (5, 3) are scaled down
MaxTime == 3
ScrollPageSize == 2
ConvLimit == 1

\* a stored conversation: the payload's "user_id" and "timestamp"
Conversation(user_id, timestamp) == [user_id |-> user_id, timestamp |-> timestamp]

\* _make_point_id(collection, user_id, int(time.time())): a uuid5 of the parts,
\* one point per user and second.  The order of the ids is arbitrary in the
\* parts; the model fixes one order
PointId(point) == (MaxUsers + 1) * point.timestamp + point.user_id

\* store_conversation at time now; an empty user id stores nothing
StoreConversation(store, user_id, now) ==
    IF user_id = NoUser THEN store ELSE store \cup {Conversation(user_id, now)}

\* the points in the order client.scroll walks them (by id)
RECURSIVE ScrollOrder(_)
ScrollOrder(store) ==
    IF store = {} THEN <<>>
    ELSE LET m == CHOOSE x \in store : \A y \in store : PointId(x) <= PointId(y)
         IN <<m>> \o ScrollOrder(store \ {m})

\* the while loop of get_user_conversations_recent: one page per turn, the user's
\* points of the page kept, until the last page or limit * 2 points
RECURSIVE ScrollLoop(_, _, _, _)
ScrollLoop(all_points, rest, user_id, limit) ==
    LET points == Take(rest, ScrollPageSize)
        user_points == SelectSeq(points, LAMBDA point : point.user_id = user_id)
        extended == all_points \o user_points
        offset_is_none == Len(rest) <= ScrollPageSize
    IN IF offset_is_none \/ Len(extended) >= limit * 2
       THEN extended
       ELSE ScrollLoop(extended, SubSeq(rest, ScrollPageSize + 1, Len(rest)),
                       user_id, limit)

\* all_points.sort(key=get_timestamp, reverse=True)
RECURSIVE SortByTimestamp(_)
SortByTimestamp(S) ==
    IF S = {} THEN <<>>
    ELSE LET m == CHOOSE x \in S : \A y \in S : y.timestamp <= x.timestamp
         IN <<m>> \o SortByTimestamp(S \ {m})

GetUserConversationsRecent(store, user_id, limit) ==
    IF user_id = NoUser THEN <<>>
    ELSE LET all_points == ScrollLoop(<<>>, ScrollOrder(store), user_id, limit)
         IN Take(SortByTimestamp({all_points[i] : i \in DOMAIN all_points}), limit)

\* search_similar_conversations; the ranking of the points for the query is
\* arbitrary in the stored parts, the model takes the reverse of the id order
SearchSimilarConversations(store, user_id, limit) ==
    IF user_id = NoUser THEN <<>>
    ELSE LET by_id == ScrollOrder(store)
             ranked == [i \in DOMAIN by_id |-> by_id[Len(by_id) + 1 - i]]
             results == Take(ranked, limit * SearchFactor)
             verified_results ==
                 SelectSeq(results, LAMBDA r : r.user_id = user_id)
         IN Take(verified_results, limit)

\* the two runs
Runs == {"one", "two"}
ObservedUser == 1

NoConversations ==
    [store |-> [w \in Runs |-> {}], now |-> 1, user_id |-> NoUser,
     recent |-> [w \in Runs |-> <<>>], similar |-> [w \in Runs |-> <<>>]]

(***************************************************************************)
(* The composite search + availability handler                             *)
(***************************************************************************)
\* restaurants_enriched[:5]
MaxAvailabilityChecks == 5

\* the functions execute_function dispatches
SupportedFunctions ==
    {"search_restaurants", "get_restaurant_menu", "get_demo_vouchers", "get_messages",
     "get_table_layouts", "get_restaurant_details"}

\* execute_function: the text it returns, as the set of the phrases "co ban trong"
\* and "available" that occur in it.  reply is the text of a dispatched function;
\* the text of the else branch ("Xin loi, toi chua the thuc hien chuc nang
\* '<function_name>'. Vui long thu lai sau.") holds neither phrase
ExecuteFunction(function_name, reply) ==
    IF function_name \in SupportedFunctions THEN reply ELSE {}

\* the checks of the handler: one result per candidate with an id; available is
\* what the backend's availability check reports for a restaurant, which
\* execute_function would have to ask
AvailabilityResults(restaurants_enriched, available) ==
    LET candidates ==
            SelectSeq(Take(restaurants_enriched, MaxAvailabilityChecks),
                      LAMBDA restaurant_id : restaurant_id # NoId)
    IN [i \in DOMAIN candidates |->
           LET availability_result ==
                   ExecuteFunction("check_availability",
                                   IF available[candidates[i]]
                                   THEN {"co ban trong"} ELSE {})
           IN [restaurant |-> candidates[i],
               has_availability |->
                   \/ "co ban trong" \in availability_result
                   \/ "available" \in availability_result]]

AvailabilityRestaurants == {1, 2, 3}

NoAvailability ==
    [pc |-> "idle", restaurants |-> <<>>,
     available |-> [r \in AvailabilityRestaurants |-> FALSE],
     availability_results |-> <<>>]

\* every sampled call but the named one is idle
CallsIdleBut(name) ==
    /\ name # "excl" => excl = NoExclusion
    /\ name # "mal" => mal = NoMalformed
    /\ name # "rt" => rt = NoRouting
    /\ name # "srch" => srch = NoSearch
    /\ name # "lrn" => lrn = NothingLearned
    /\ name # "convs" => convs = NoConversations
    /\ name # "avl" => avl = NoAvailability

\* runs: "none", "once" (the call), "again" (the call on its own result)
NoFiltered == [called |-> FALSE, runs |-> "none", results |-> NoSearchResults]
FilterIdle ==
    /\ flt_in = NoSearchResults
    /\ flt_tags = {}
    /\ flt_out = NoFiltered
    /\ flt_first = NoFiltered

ExtIdle ==
    /\ FilterIdle
    /\ RerankIdle
    /\ TurnIdle
    /\ CallsIdleBut("none")

(***************************************************************************)
(* RestaurantAgent._multi_collection_search: the fan-out and its join      *)
(***************************************************************************)
\* the queries started for collections = {restaurants, menus, image_url}, which is
\* what _detect_required_collections answers for every handler: the handlers
\* pass an intent without a confidence, and a confidence below 0.3 selects all
FanOutCollections == {"restaurants", "menus", "tables", "image_url"}

NotIssued == [status |-> "none", hits |-> <<>>]
Pending == [status |-> "pending", hits |-> <<>>]
Returned(hits) == [status |-> "ok", hits |-> hits]
Raised == [status |-> "raised", hits |-> <<>>]
NoTasks == [c \in FanOutCollections |-> NotIssued]

\* what a query of each collection can return
HitChoices(c) ==
    CASE c = "restaurants" ->
           {<<>>, Formatted(<<Point(Payload(NoId, 1, "restaurant"), EmptyMetadata, 80000)>>)}
      [] c = "menus" ->
           {<<>>, Formatted(<<Point(Payload(1, 11, "menu"), EmptyMetadata, 70000)>>)}
      [] c = "tables" ->
           {<<>>, Flat(<<Point(Payload(1, 21, "table"), EmptyMetadata, 40000)>>)}
      [] OTHER ->
           {<<>>, Flat(<<Point(Payload(3, 32, "table_layout"),
                               Payload(3, 32, "table_layout"), 45000)>>)}

\* gather returns as soon as some query has finished
GatherFirstCompleted(ts) == \E c \in FanOutCollections : ts[c].status \in {"ok", "raised"}

\* await asyncio.gather(*search_tasks, ...) returns when every query has finished
GatherReady(ts) == \A c \in FanOutCollections : ts[c].status \in {"ok", "raised"}

\* gather without return_exceptions: the first exception is raised to the caller
GatherPropagates(ts) == \E c \in FanOutCollections : ts[c].status = "raised"

\* return_exceptions=True: an exception of a query is a value of the result list
GatherRaises(ts) == FALSE

\* lines 578-583: an exception instance maps to the empty list
MapResults(ts) ==
    [c \in FanOutCollections |-> IF ts[c].status = "ok" THEN ts[c].hits ELSE <<>>]

(***************************************************************************)
(* RestaurantAgent.handle_message and the handlers it routes to            *)
(***************************************************************************)
\* complex: _is_complex_availability_query holds;  booking: a booking/waitlist
\* keyword occurs;  topic: the keyword group _get_fallback_response finds
HMessages == [complex : BOOLEAN, booking : BOOLEAN, topic : {"hours", "other"}]
NoHMessage == [complex |-> FALSE, booking |-> FALSE, topic |-> "other"]
HIntents == {"restaurant_search", "menu_inquiry", General}

NoResponse == [kind |-> "none", text |-> "none"]
\* the explicit texts "Xin loi, toi khong tim thay ..." of the handlers
EmptyResult(h) == [kind |-> "empty_result", text |-> h]
\* a response rendered from retrieved restaurants, dishes or services
DataResponse(h) == [kind |-> "data", text |-> h]
\* the "Xin loi, ... Vui long thu lai sau." texts of the handlers' except blocks
HandlerError(h) == [kind |-> "handler_error", text |-> h]
BookingRedirect == [kind |-> "redirect", text |-> "booking"]
\* "Xin loi, co loi xay ra khi xu ly tin nhan cua ban."
EntryError == [kind |-> "entry_error", text |-> "entry"]

\* _get_fallback_response: a canned text chosen by keyword
GetFallbackResponse(m) ==
    IF m.topic = "hours"
    THEN [kind |-> "canned", text |-> "open_10_to_22_every_day"]
    ELSE [kind |-> "canned", text |-> "assistant_greeting"]

\* the intent branches come before the check for a composite query
RouteIntentFirst(m, intent) ==
    IF intent = "restaurant_search" THEN "restaurant_search"
    ELSE IF intent = "menu_inquiry" THEN "menu_inquiry"
    ELSE IF m.complex THEN "complex"
    ELSE IF m.booking THEN "redirect"
    ELSE "general"

\* lines 74-105
RouteOf(m, intent) ==
    IF m.complex THEN "complex"
    ELSE IF intent = "restaurant_search" THEN "restaurant_search"
    ELSE IF intent = "menu_inquiry" THEN "menu_inquiry"
    ELSE IF m.booking THEN "redirect"
    ELSE "general"

NothingFound(agg) ==
    agg.restaurants = <<>> /\ agg.menus = <<>> /\ agg.services = <<>>

\* what the fan-out handlers answer from the aggregate; f is what the formatter's
\* oracle call did ("text", "none": no answer, the fallback formatter renders,
\* "raise": the formatter raised)
HandlerResponse(h, agg, m, f) ==
    CASE h = "complex" ->
           IF agg.restaurants = <<>> THEN EmptyResult(h) ELSE DataResponse(h)
      [] h = "restaurant_search" ->
           IF NothingFound(agg) THEN EmptyResult(h)
           ELSE IF f = "raise" THEN HandlerError(h)
           ELSE DataResponse(h)
      [] OTHER ->
           IF NothingFound(agg) THEN GetFallbackResponse(m)
           ELSE IF f = "raise" THEN GetFallbackResponse(m)
           ELSE DataResponse(h)

\* a handler's own except block (lines 339-341, 1571-1573, 1747-1748)
HandlerExcept(h, m) ==
    IF h = "general" THEN GetFallbackResponse(m) ELSE HandlerError(h)

\* the except clause of handle_message lets the exception through
EntrypointLetsThrough(f) == FALSE

\* lines 141-143: except Exception catches the fault of every step
EntrypointCatches(f) == TRUE

AgentIdle ==
    /\ hpc = "idle"
    /\ hmsg = NoHMessage
    /\ hintent = "none"
    /\ handler = "none"
    /\ tasks = NoTasks
    /\ batch = "none"
    /\ fmt = "none"
    /\ response = NoResponse
    /\ fault = "none"
    /\ propagated = FALSE

(***************************************************************************)
(* handle_message: steps and specification                                 *)
(***************************************************************************)
\* lines 46-56
HandleBegin ==
    /\ hpc = "idle"
    /\ \E m \in HMessages : hmsg' = m
    /\ hpc' = "intent"
    /\ UNCHANGED <<hintent, handler, tasks, batch, fmt, response, fault, propagated,
                   search_results, aggregated, agentFixed>>

\* lines 59-61: the cascade answers with an intent, or a fault it does not
\* recover from itself reaches handle_message
RecognizeStep ==
    /\ hpc = "intent"
    /\ \/ /\ \E i \in HIntents : hintent' = i
          /\ hpc' = "entities"
          /\ fault' = fault
       \/ /\ hintent' = hintent
          /\ hpc' = "except"
          /\ fault' = "intent"
    /\ UNCHANGED <<hmsg, handler, tasks, batch, fmt, response, propagated,
                   search_results, aggregated, agentFixed>>

\* lines 62-67: entity extraction and _resolve_restaurant_reference
EntitiesStep ==
    /\ hpc = "entities"
    /\ \/ hpc' = "route" /\ fault' = fault
       \/ hpc' = "except" /\ fault' = "entities"
    /\ UNCHANGED <<hmsg, hintent, handler, tasks, batch, fmt, response, propagated,
                   search_results, aggregated, agentFixed>>

\* lines 73-105: the branch on the message and the intent
Route ==
    /\ hpc = "route"
    /\ handler' = RouteOf(hmsg, hintent)
    /\ IF handler' = "redirect"
       THEN response' = BookingRedirect /\ hpc' = "store"
       ELSE IF handler' = "menu_inquiry"
       THEN response' = response /\ hpc' = "menu"
       ELSE response' = response /\ hpc' = "fanout"
    /\ UNCHANGED <<hmsg, hintent, tasks, batch, fmt, fault, propagated,
                   search_results, aggregated, agentFixed>>

\* _multi_collection_search up to line 574: one query per collection is created
FanOutStart ==
    /\ hpc = "fanout"
    /\ tasks' = [c \in FanOutCollections |-> Pending]
    /\ hpc' = "search"
    /\ UNCHANGED <<hmsg, hintent, handler, batch, fmt, response, fault, propagated,
                   search_results, aggregated, agentFixed>>

\* one query finishes, in any order: it returns its hits or raises
TaskComplete ==
    /\ \E c \in FanOutCollections :
          /\ tasks[c].status = "pending"
          /\ \/ \E hits \in HitChoices(c) : tasks' = [tasks EXCEPT ![c] = Returned(hits)]
             \/ tasks' = [tasks EXCEPT ![c] = Raised]
    /\ UNCHANGED <<hpc, hmsg, hintent, handler, batch, fmt, response, fault, propagated,
                   search_results, aggregated, agentFixed>>

\* lines 575-585: gather returns, the results are mapped; an exception leaving
\* _multi_collection_search is caught by the handler's except block
Join ==
    /\ hpc = "search"
    /\ GatherReady(tasks)
    /\ IF GatherRaises(tasks)
       THEN /\ batch' = "raised"
            /\ response' = HandlerExcept(handler, hmsg)
            /\ hpc' = "store"
            /\ search_results' = search_results
       ELSE /\ batch' = "returned"
            /\ response' = response
            /\ hpc' = "aggregate"
            /\ search_results' = MapResults(tasks)
    /\ UNCHANGED <<hmsg, hintent, handler, tasks, fmt, fault, propagated,
                   aggregated, agentFixed>>

\* the handler's call of _aggregate_search_results (lines 257, 1522, 1730)
AggregateStep ==
    /\ hpc = "aggregate"
    /\ aggregated' = AggregateSearchResults(search_results, fetchable)
    /\ hpc' = "respond"
    /\ UNCHANGED <<hmsg, hintent, handler, tasks, batch, fmt, response, fault,
                   propagated, search_results, agentFixed>>

\* the rest of the handler: the empty-result branch or the formatter
Respond ==
    /\ hpc = "respond"
    /\ \E f \in {"text", "none", "raise"} :
          /\ fmt' = IF handler = "complex"
                       \/ (handler # "complex" /\ NothingFound(aggregated))
                       \/ (handler = "complex" /\ aggregated.restaurants = <<>>)
                    THEN "unused" ELSE f
          /\ response' = HandlerResponse(handler, aggregated, hmsg, f)
    /\ hpc' = "store"
    /\ UNCHANGED <<hmsg, hintent, handler, tasks, batch, fault, propagated,
                   search_results, aggregated, agentFixed>>

\* _handle_menu_inquiry: the reasoning search of the menus collection, the
\* empty-result branch, the formatter.  When the formatter raises, line 1667 awaits
\* the synchronous fallback formatter, which raises again into the outer except
\* block: it answers from a plain menu search or with the handler's error text.
MenuInquiry ==
    /\ hpc = "menu"
    /\ \E hits \in HitChoices("menus"), f \in {"text", "none", "raise"},
          viaPlainSearch \in BOOLEAN :
          /\ search_results' = [NoSearchResults EXCEPT !.menus = hits]
          /\ IF hits = <<>>
             THEN fmt' = "unused" /\ response' = EmptyResult(handler)
             ELSE /\ fmt' = f
                  /\ response' = IF f = "raise" /\ ~viaPlainSearch
                                 THEN HandlerError(handler)
                                 ELSE DataResponse(handler)
    /\ hpc' = "store"
    /\ UNCHANGED <<hmsg, hintent, handler, tasks, batch, fault, propagated,
                   aggregated, agentFixed>>

\* lines 108-113: store_conversation and _update_turn_state
StoreStep ==
    /\ hpc = "store"
    /\ \/ hpc' = "learn" /\ fault' = fault
       \/ hpc' = "except" /\ fault' = "store"
    /\ UNCHANGED <<hmsg, hintent, handler, tasks, batch, fmt, response, propagated,
                   search_results, aggregated, agentFixed>>

\* lines 115-139: learn_from_interaction, _store_conversation, the return
LearnAndReturn ==
    /\ hpc = "learn"
    /\ \/ hpc' = "done" /\ fault' = fault
       \/ hpc' = "except" /\ fault' = "learn"
    /\ UNCHANGED <<hmsg, hintent, handler, tasks, batch, fmt, response, propagated,
                   search_results, aggregated, agentFixed>>

\* lines 141-143
HandleExcept ==
    /\ hpc = "except"
    /\ IF EntrypointCatches(fault)
       THEN response' = EntryError /\ propagated' = FALSE
       ELSE response' = NoResponse /\ propagated' = TRUE
    /\ hpc' = "done"
    /\ UNCHANGED <<hmsg, hintent, handler, tasks, batch, fmt, fault,
                   search_results, aggregated, agentFixed>>

\* the next request
HandleReset ==
    /\ hpc = "done"
    /\ hpc' = "idle"
    /\ hmsg' = NoHMessage
    /\ hintent' = "none"
    /\ handler' = "none"
    /\ tasks' = NoTasks
    /\ batch' = "none"
    /\ fmt' = "none"
    /\ response' = NoResponse
    /\ fault' = "none"
    /\ propagated' = FALSE
    /\ search_results' = NoSearchResults
    /\ aggregated' = NoAggregated
    /\ UNCHANGED agentFixed

AgentInit ==
    /\ AgentIdle
    /\ ExtIdle
    /\ search_results = NoSearchResults
    /\ aggregated = NoAggregated
    /\ first_aggregated = NoAggregated
    /\ fetchable \in RetrievableSets
    /\ CmbIdle
    /\ IntentIdle

AgentNext ==
    \/ HandleBegin
    \/ RecognizeStep
    \/ EntitiesStep
    \/ Route
    \/ FanOutStart
    \/ TaskComplete
    \/ Join
    \/ AggregateStep
    \/ Respond
    \/ MenuInquiry
    \/ StoreStep
    \/ LearnAndReturn
    \/ HandleExcept
    \/ HandleReset

SpecAgent == AgentInit /\ [][AgentNext]_vars

\* the query of collection c finishes
QueryCompletes(c) == TaskComplete /\ tasks'[c] # tasks[c]
\* the steps the event loop runs itself: every step but the end of a query
EventLoopStep ==
    \/ HandleBegin
    \/ RecognizeStep
    \/ EntitiesStep
    \/ Route
    \/ FanOutStart
    \/ Join
    \/ AggregateStep
    \/ Respond
    \/ MenuInquiry
    \/ StoreStep
    \/ LearnAndReturn
    \/ HandleExcept
    \/ HandleReset
\* the index answers every query but, possibly, the one of SlowCollection; the
\* event loop resumes a coroutine whose awaited call has returned
SlowCollection == "menus"
SpecAgentSlowQuery ==
    /\ SpecAgent
    /\ WF_vars(EventLoopStep)
    /\ \A c \in FanOutCollections \ {SlowCollection} : WF_vars(QueryCompletes(c))

(***************************************************************************)
(* The aggregator: specification                                           *)
(***************************************************************************)
AggInit ==
    /\ \E rs \in DistinctSeqs(RestaurantPoints, MaxHits),
          ms \in DistinctSeqs(MenuPoints, MaxHits),
          ts \in DistinctSeqs(TablePoints, MaxHits),
          ls \in DistinctSeqs(LayoutPoints, MaxHits) :
          search_results = [restaurants |-> Formatted(rs), menus |-> Formatted(ms),
                            tables |-> Flat(ts), image_url |-> Flat(ls)]
    /\ fetchable \in RetrievableSets
    /\ aggregated = NoAggregated
    /\ first_aggregated = NoAggregated
    /\ CmbIdle
    /\ IntentIdle
    /\ AgentIdle
    /\ ExtIdle

\* one call of _aggregate_search_results on the current result map
Aggregate ==
    /\ aggregated' = AggregateSearchResults(search_results, fetchable)
    /\ first_aggregated' = IF first_aggregated.called THEN first_aggregated
                           ELSE aggregated'
    /\ UNCHANGED <<search_results, fetchable, nonAggVars>>

\* the same hits arrive in another order: two neighbours of one list change places
PermuteHits ==
    /\ first_aggregated.called
    /\ \E c \in Collections :
          \E i \in 1..(Len(search_results[c]) - 1) :
             search_results' =
                 [search_results EXCEPT ![c] =
                     [@ EXCEPT ![i] = search_results[c][i + 1],
                               ![i + 1] = search_results[c][i]]]
    /\ UNCHANGED <<fetchable, aggregated, first_aggregated, nonAggVars>>

AggNext ==
    \/ Aggregate
    \/ PermuteHits

SpecAgg == AggInit /\ [][AggNext]_vars

(***************************************************************************)
(* The combiner on free inputs                                             *)
(***************************************************************************)
CmbConfidences == {0, 3000, 4000, 5000, 6000, 6300, 7000, 7500, 9000}
CmbIntents == {"restaurant_search", "menu_inquiry", General}
CmbLabelResults == {Result(General, 0, "intent_collection_no_match")}
                   \cup {Result(i, c, "intent_collection") :
                            i \in {"menu_inquiry", General}, c \in {5795, 8075}}
CmbLlmResults == {Result(i, c, "llm_classification") :
                     i \in CmbIntents, c \in CmbConfidences}
CmbVectorResults == {Result(General, 3000, "vector_no_match"),
                     Result("restaurant_search", 6500, "semantic_restaurant_detection")}
CmbPatternResults == {Result(i, c, "pattern_fallback") :
                         i \in CmbIntents, c \in CmbConfidences \ {0}}

CmbInit ==
    /\ cmb_in \in {<<ic, llm, vec, pat>> :
                      ic \in CmbLabelResults, llm \in CmbLlmResults,
                      vec \in CmbVectorResults, pat \in CmbPatternResults}
    /\ cmb_out = NoResult
    /\ IntentIdle
    /\ AggIdle
    /\ AgentIdle
    /\ ExtIdle

CmbApply ==
    /\ cmb_out = NoResult
    /\ cmb_out' = CombineIntentResultsPriority(cmb_in[1], cmb_in[2], cmb_in[3], cmb_in[4])
    /\ UNCHANGED <<cmb_in, nonCmbVars>>

CmbNext == CmbApply
SpecCombine == CmbInit /\ [][CmbNext]_vars

(***************************************************************************)
(* The cascade                                                             *)
(***************************************************************************)
IntentInit ==
    /\ IntentIdle
    /\ CmbIdle
    /\ AggIdle
    /\ AgentIdle
    /\ ExtIdle

IntentNext ==
    \/ RecognizeBegin
    \/ LabelMatch
    \/ OracleClassify
    \/ VectorRecognize
    \/ PatternRecognize
    \/ Combine
    \/ Verify
    \/ RecognizeReturn

SpecIntent == IntentInit /\ [][IntentNext]_vars
\* the event loop resumes a coroutine whose awaited call has returned
SpecIntentFair == SpecIntent /\ WF_vars(IntentNext)

(***************************************************************************)
(* The constraint filter: specification                                    *)
(***************************************************************************)
CoreIdle ==
    /\ CmbIdle
    /\ IntentIdle
    /\ AggIdle
    /\ AgentIdle
    /\ CallsIdleBut("none")

\* the state in which no request of the service is in flight
SystemIdle ==
    /\ CmbIdle
    /\ IntentIdle
    /\ AggIdle
    /\ AgentIdle
    /\ FilterIdle
    /\ RerankIdle
    /\ TurnIdle

FilterInit ==
    /\ \E rs \in DistinctSeqs(FilterRestaurantPoints, MaxHits),
          ms \in DistinctSeqs(FilterMenuPoints, MaxHits),
          ts \in DistinctSeqs(FilterTablePoints, MaxHits) :
          flt_in = [restaurants |-> Formatted(rs), menus |-> Formatted(ms),
                    tables |-> Flat(ts), image_url |-> <<>>]
    /\ flt_tags \in ExclusionSets
    /\ flt_out = NoFiltered
    /\ flt_first = NoFiltered
    /\ CoreIdle
    /\ RerankIdle
    /\ TurnIdle

\* one call of _filter_by_forbidden_tags on the search results
FilterApply ==
    /\ ~flt_out.called
    /\ flt_out' = [called |-> TRUE, runs |-> "once",
                   results |-> FilterByForbiddenTags(flt_in, flt_tags)]
    /\ flt_first' = flt_out'
    /\ UNCHANGED <<flt_in, flt_tags, coreVars, rerankVars, turnVars>>

\* the filter applied to what it returned
FilterAgain ==
    /\ flt_out.called
    /\ flt_out' = [called |-> TRUE, runs |-> "again",
                   results |-> FilterByForbiddenTags(flt_out.results, flt_tags)]
    /\ UNCHANGED <<flt_in, flt_tags, flt_first, coreVars, rerankVars, turnVars>>

FilterNext ==
    \/ FilterApply
    \/ FilterAgain

SpecFilter == FilterInit /\ [][FilterNext]_vars

(***************************************************************************)
(* The re-ranking menu search: specification                               *)
(***************************************************************************)
RerankInit ==
    /\ \E S \in SUBSET RerankPoints : rr_points = BestFirst(S)
    /\ rr_profile \in Profiles
    /\ rr_restaurant \in {NoId, 1}
    /\ rr_results = <<>>
    /\ rr_out = NoReranked
    /\ CoreIdle
    /\ FilterIdle
    /\ TurnIdle

\* the candidate search; no candidate ends the call
RerankSearch ==
    /\ rr_out.path = "none"
    /\ rr_results' = RerankCandidates(rr_points, rr_restaurant, RerankLimit,
                                      RerankThreshold)
    /\ rr_out' = IF rr_results' = <<>> THEN [path |-> "empty", results |-> <<>>]
                 ELSE [path |-> "searched", results |-> <<>>]
    /\ UNCHANGED <<rr_points, rr_profile, rr_restaurant, coreVars, filterVars, turnVars>>

\* boost, sort, threshold and limit
RerankFinish ==
    /\ rr_out.path = "searched"
    /\ ~BoostRaises(rr_profile, rr_results)
    /\ rr_out' = [path |-> "reranked",
                  results |-> Rerank(rr_profile, rr_results, RerankLimit,
                                     RerankThreshold)]
    /\ UNCHANGED <<rr_points, rr_profile, rr_restaurant, rr_results, coreVars,
                   filterVars, turnVars>>

\* except Exception: the plain search on user_message
RerankFallback ==
    /\ rr_out.path = "searched"
    /\ BoostRaises(rr_profile, rr_results)
    /\ \E S \in SUBSET FallbackPoints :
          rr_out' = [path |-> "fallback",
                     results |-> SearchMenus(BestFirst(S), rr_restaurant,
                                             RerankLimit, RerankThreshold)]
    /\ UNCHANGED <<rr_points, rr_profile, rr_restaurant, rr_results, coreVars,
                   filterVars, turnVars>>

RerankNext ==
    \/ RerankSearch
    \/ RerankFinish
    \/ RerankFallback

SpecRerank == RerankInit /\ [][RerankNext]_vars

(***************************************************************************)
(* Turn state: the steps of a handle_message call between its awaits       *)
(***************************************************************************)
\* lines 46-59: the entry of a new user is created, the cascade is awaited
TBegin(r, U, M) ==
    /\ treq[r].pc = "idle"
    /\ \E u \in U, m \in M :
          /\ turn_states' = IF turn_states[u].present THEN turn_states
                            ELSE [turn_states EXCEPT ![u] = NewTurnState]
          /\ treq' = [treq EXCEPT ![r] =
                         [NoRequest EXCEPT !.pc = "intent", !.user = u, !.msg = m,
                                           !.wrote = turn_states' # turn_states]]
    /\ UNCHANGED <<coreVars, filterVars, rerankVars>>

\* lines 59-62: the cascade answers (or its fault reaches the except clause of
\* handle_message), entity extraction is awaited
TRecognize(r) ==
    /\ treq[r].pc = "intent"
    /\ \/ \E i \in TurnIntents :
             treq' = [treq EXCEPT ![r].intent = i, ![r].pc = "entities"]
       \/ treq' = [treq EXCEPT ![r] = Ended(@, "entry_error")]
    /\ UNCHANGED <<turn_states, coreVars, filterVars, rerankVars>>

\* lines 62-105: the entities arrive, the reference is resolved against the turn
\* state, the request is routed; the handler runs up to its first await (the
\* general handler reads the turn state), the booking redirect has no handler
TEntities(r, E) ==
    /\ treq[r].pc = "entities"
    /\ \/ \E en \in E :
             LET q == treq[r]
                 ts == turn_states[q.user]
                 route == RouteOf(q.msg, q.intent)
             IN treq' = [treq EXCEPT ![r] =
                    [q EXCEPT !.extracted = en,
                              !.entities = ResolveRestaurantReference(q.msg, en, ts),
                              !.route = route,
                              !.scope = IF route = "general" THEN GeneralScope(ts)
                                        ELSE NoId,
                              !.pc = IF route = "redirect" THEN "store"
                                     ELSE "handler"]]
       \/ treq' = [treq EXCEPT ![r] = Ended(@, "entry_error")]
    /\ UNCHANGED <<turn_states, coreVars, filterVars, rerankVars>>

\* the handler returns a text: an answer, or the error text of its own except
\* block; store_conversation is awaited
THandler(r) ==
    /\ treq[r].pc = "handler"
    /\ \E failed \in BOOLEAN :
          treq' = [treq EXCEPT ![r].handler_failed = failed, ![r].pc = "store"]
    /\ UNCHANGED <<turn_states, coreVars, filterVars, rerankVars>>

\* lines 110-117: store_conversation returns, _update_turn_state writes the
\* user's entry, learn_from_interaction is awaited
TStore(r, N) ==
    /\ treq[r].pc = "store"
    /\ \/ /\ \E name \in N :
                turn_states' =
                    [turn_states EXCEPT ![treq[r].user] =
                        UpdateTurnState(@, treq[r].intent, treq[r].entities,
                                        IF treq[r].handler_failed THEN NoName
                                        ELSE name)]
          /\ treq' = [treq EXCEPT ![r].pc = "learn",
                                  ![r].wrote = @ \/ turn_states' # turn_states]
       \/ /\ treq' = [treq EXCEPT ![r] = Ended(@, "entry_error")]
          /\ turn_states' = turn_states
    /\ UNCHANGED <<coreVars, filterVars, rerankVars>>

\* lines 117-143: learn_from_interaction returns, the response is returned
TLearn(r) ==
    /\ treq[r].pc = "learn"
    /\ \/ treq' = [treq EXCEPT ![r] = Ended(@, "ok")]
       \/ treq' = [treq EXCEPT ![r] = Ended(@, "entry_error")]
    /\ UNCHANGED <<turn_states, coreVars, filterVars, rerankVars>>

\* the caller cancels the request: CancelledError is raised at the await the call
\* is suspended in and leaves handle_message (it is not an Exception)
TCancel(r) ==
    /\ treq[r].pc \in {"intent", "entities", "handler", "store", "learn"}
    /\ treq' = [treq EXCEPT ![r] = Ended(@, "cancelled")]
    /\ UNCHANGED <<turn_states, coreVars, filterVars, rerankVars>>

\* the next request
TReset(r) ==
    /\ treq[r].pc = "done"
    /\ treq' = [treq EXCEPT ![r] = NoRequest]
    /\ UNCHANGED <<turn_states, coreVars, filterVars, rerankVars>>

TurnInit ==
    /\ TurnIdle
    /\ CoreIdle
    /\ FilterIdle
    /\ RerankIdle

\* requests of several users in flight on one event loop
TurnNext ==
    \E r \in Requests :
        \/ TBegin(r, Users, ConcMessages)
        \/ TRecognize(r)
        \/ TEntities(r, ConcEntities)
        \/ THandler(r)
        \/ TStore(r, ConcNames)
        \/ TLearn(r)
        \/ TCancel(r)
        \/ TReset(r)

SpecTurn == TurnInit /\ [][TurnNext]_vars

\* one user, one request after the other
TurnSeqNext ==
    \/ TBegin(1, {1}, SeqMessages)
    \/ TRecognize(1)
    \/ TEntities(1, SeqEntities)
    \/ THandler(1)
    \/ TStore(1, SeqNames)
    \/ TLearn(1)
    \/ TCancel(1)
    \/ TReset(1)

SpecTurnSeq == TurnInit /\ [][TurnSeqNext]_vars

(***************************************************************************)
(* The exclusion set of a request: specification                           *)
(***************************************************************************)
ExclInit ==
    /\ \E m \in ExclMessages, r \in ExclReplies, sr \in ExclResults :
          excl = [NoExclusion EXCEPT !.pc = "reason", !.message = m, !.reply = r,
                                     !.search_results = sr]
    /\ SystemIdle
    /\ CallsIdleBut("excl")

\* STEP 1 of _handle_restaurant_search (line 1472)
ExclReason ==
    /\ excl.pc = "reason"
    /\ excl' = [excl EXCEPT !.pc = "filter",
                            !.reasoning_profile =
                                UniversalQueryReasoning(excl.message, excl.reply)]
    /\ UNCHANGED exclFixed

\* STEP 6 (lines 1515-1519)
ExclFilter ==
    /\ excl.pc = "filter"
    /\ LET forbidden_tags == ExtractForbiddenTags(excl.reasoning_profile)
       IN excl' = [excl EXCEPT !.pc = "done",
                               !.forbidden_tags = forbidden_tags,
                               !.filtered =
                                   IF forbidden_tags # {}
                                   THEN FilterByForbiddenTags(excl.search_results,
                                                              forbidden_tags)
                                   ELSE excl.search_results]
    /\ UNCHANGED exclFixed

ExclNext ==
    \/ ExclReason
    \/ ExclFilter

SpecExclusion == ExclInit /\ [][ExclNext]_vars

(***************************************************************************)
(* Hits with a malformed payload: specification                            *)
(***************************************************************************)
MalInit ==
    /\ \E rs \in DistinctSeqs(FilterRestaurantPoints, 1),
          ms \in DistinctSeqs(MalformedMenuPoints, MaxHits) :
          mal = [NoMalformed EXCEPT
                    !.pc = "filter",
                    !.search_results = [restaurants |-> Formatted(rs),
                                        menus |-> Formatted(ms),
                                        tables |-> <<>>, image_url |-> <<>>]]
    /\ fetchable \in RetrievableSets
    /\ search_results = NoSearchResults
    /\ aggregated = NoAggregated
    /\ first_aggregated = NoAggregated
    /\ CmbIdle
    /\ IntentIdle
    /\ AgentIdle
    /\ FilterIdle
    /\ RerankIdle
    /\ TurnIdle
    /\ CallsIdleBut("mal")

\* STEP 6 of _handle_restaurant_search; an exception ends in lines 1572-1574
MalFilter ==
    /\ mal.pc = "filter"
    /\ \E forbidden_tags \in ExclusionSets :
          mal' = IF FilterRaises(mal.search_results, forbidden_tags)
                 THEN [mal EXCEPT !.pc = "done", !.forbidden_tags = forbidden_tags,
                                  !.outcome = "error"]
                 ELSE [mal EXCEPT !.pc = "aggregate",
                                  !.forbidden_tags = forbidden_tags,
                                  !.filtered = FilterByForbiddenTags(mal.search_results,
                                                                     forbidden_tags)]
    /\ UNCHANGED malFixed

\* STEP 7
MalAggregate ==
    /\ mal.pc = "aggregate"
    /\ mal' = [mal EXCEPT !.pc = "done", !.outcome = "data",
                          !.aggregated = AggregateSearchResults(mal.filtered, fetchable)]
    /\ UNCHANGED malFixed

MalNext ==
    \/ MalFilter
    \/ MalAggregate

SpecMalformed == MalInit /\ [][MalNext]_vars

(***************************************************************************)
(* Routing of a message: specification                                     *)
(***************************************************************************)
RouteInit ==
    /\ \E cues \in SUBSET {"restaurant", "availability", "cuisine", "time"},
          b \in BOOLEAN, i \in Intents :
          rt = [NoRouting EXCEPT !.pc = "route", !.message = cues, !.booking = b,
                                 !.intent = i]
    /\ SystemIdle
    /\ CallsIdleBut("rt")

\* lines 73-105 of handle_message
RouteCall ==
    /\ rt.pc = "route"
    /\ rt' = [rt EXCEPT
                 !.pc = "done",
                 !.handler =
                     RouteOf([complex |-> IsComplexAvailabilityQuery(rt.message, rt.intent),
                              booking |-> rt.booking, topic |-> "other"],
                             rt.intent)]
    /\ UNCHANGED rtFixed

\* the next message
RouteReset ==
    /\ rt.pc = "done"
    /\ \E cues \in SUBSET {"restaurant", "availability", "cuisine", "time"},
          b \in BOOLEAN, i \in Intents :
          rt' = [NoRouting EXCEPT !.pc = "route", !.message = cues, !.booking = b,
                                  !.intent = i]
    /\ UNCHANGED rtFixed

RouteNext ==
    \/ RouteCall
    \/ RouteReset

SpecRoute == RouteInit /\ [][RouteNext]_vars

(***************************************************************************)
(* The per-collection searches: specification                              *)
(***************************************************************************)
\* a query on one collection: the client's answer (best first), the owner filter
\* and the cutoff of the caller (0.5 and 0.6 in the handlers)
SearchQuery(s) ==
    \E c \in FanOutCollections, rid \in {NoId, 1}, t \in {50000, 60000} :
        \E points \in DistinctSeqs(IndexPoints(c), MaxHits) :
            /\ \A i, j \in DOMAIN points : i < j => points[i].score >= points[j].score
            /\ s = [NoSearch EXCEPT !.pc = "search", !.collection = c,
                                    !.points = points, !.restaurant_id = rid,
                                    !.distance_threshold = t]

SearchInit ==
    /\ SearchQuery(srch)
    /\ SystemIdle
    /\ CallsIdleBut("srch")

SearchCall ==
    /\ srch.pc = "search"
    /\ srch' = [srch EXCEPT
                   !.pc = "done",
                   !.hits = SearchCollection(srch.collection, srch.points,
                                             srch.restaurant_id, MaxHits,
                                             srch.distance_threshold)]
    /\ UNCHANGED srchFixed

SearchReset ==
    /\ srch.pc = "done"
    /\ SearchQuery(srch')
    /\ UNCHANGED srchFixed

SearchNext ==
    \/ SearchCall
    \/ SearchReset

SpecSearch == SearchInit /\ [][SearchNext]_vars

(***************************************************************************)
(* The feedback learning loop: specification                               *)
(***************************************************************************)
LearnInit ==
    /\ lrn = NothingLearned
    /\ SystemIdle
    /\ CallsIdleBut("lrn")

\* step 5 of handle_message: response_success is True on every branch of the
\* routing; method is the method of the intent result
HandleMessageLearn ==
    \E user_message \in LearnMessages, intent_name \in LearnIntents,
       intent_method \in {"llm_classification", "pattern_override_llm_general"},
       nearest \in LearnIntents \cup {"none"} :
        /\ lrn' = IF /\ intent_method \in {"pattern_override_llm_general",
                                          "pattern_override_llm_low_confidence"}
                     /\ intent_name = General
                  THEN lrn
                  ELSE LearnFromInteraction(lrn, user_message, intent_name, TRUE,
                                            nearest)
        /\ UNCHANGED lrnFixed

\* learn_from_interaction called on its own
LearnCall ==
    \E user_message \in LearnMessages, intent \in LearnIntents,
       response_success \in BOOLEAN, nearest \in LearnIntents \cup {"none"} :
        /\ lrn' = LearnFromInteraction(lrn, user_message, intent, response_success,
                                       nearest)
        /\ UNCHANGED lrnFixed

FeedbackCall ==
    \E user_message \in LearnMessages, predicted_intent \in LearnIntents,
       correct_intent \in LearnIntents \cup {"none"},
       nearest \in LearnIntents \cup {"none"} :
        /\ lrn' = StoreIntentFeedback(lrn, user_message, predicted_intent,
                                      correct_intent, nearest)
        /\ UNCHANGED lrnFixed

LearnNext ==
    \/ HandleMessageLearn
    \/ LearnCall
    \/ FeedbackCall

SpecLearn == LearnInit /\ [][LearnNext]_vars

(***************************************************************************)
(* The conversations collection: specification.  Two runs of the service   *)
(* receive the same calls of ObservedUser and any calls of the other users *)
(***************************************************************************)
ConvInit ==
    /\ convs = NoConversations
    /\ SystemIdle
    /\ CallsIdleBut("convs")

\* store_conversation: by ObservedUser in both runs, by another user in any run
ConvStore ==
    \E user_id \in Users \cup {NoUser}, W \in (SUBSET Runs) \ {{}} :
        /\ user_id = ObservedUser => W = Runs
        /\ convs' = [convs EXCEPT
                       !.store = [w \in Runs |->
                                     IF w \in W
                                     THEN StoreConversation(convs.store[w], user_id,
                                                            convs.now)
                                     ELSE convs.store[w]]]
        /\ UNCHANGED convsFixed

\* time.time() advances
ConvTick ==
    /\ convs.now < MaxTime
    /\ convs' = [convs EXCEPT !.now = convs.now + 1]
    /\ UNCHANGED convsFixed

\* the two retrievals for one user, in both runs
ConvQuery ==
    \E user_id \in Users \cup {NoUser} :
        /\ convs' = [convs EXCEPT
                       !.user_id = user_id,
                       !.recent = [w \in Runs |->
                                      GetUserConversationsRecent(convs.store[w],
                                                                 user_id, ConvLimit)],
                       !.similar = [w \in Runs |->
                                       SearchSimilarConversations(convs.store[w],
                                                                  user_id, ConvLimit)]]
        /\ UNCHANGED convsFixed

ConvNext ==
    \/ ConvStore
    \/ ConvTick
    \/ ConvQuery

SpecConv == ConvInit /\ [][ConvNext]_vars

(***************************************************************************)
(* The composite search + availability handler: specification              *)
(***************************************************************************)
\* the restaurants the aggregation returned and the state of the backend
AvailabilityRequest(s) ==
    \E restaurants \in DistinctSeqs(AvailabilityRestaurants, MaxHits),
       available \in [AvailabilityRestaurants -> BOOLEAN] :
        s = [NoAvailability EXCEPT !.pc = "check", !.restaurants = restaurants,
                                   !.available = available]

AvailabilityInit ==
    /\ AvailabilityRequest(avl)
    /\ SystemIdle
    /\ CallsIdleBut("avl")

\* lines 262-302
AvailabilityCheck ==
    /\ avl.pc = "check"
    /\ avl' = [avl EXCEPT
                  !.pc = "done",
                  !.availability_results =
                      AvailabilityResults(avl.restaurants, avl.available)]
    /\ UNCHANGED avlFixed

AvailabilityReset ==
    /\ avl.pc = "done"
    /\ AvailabilityRequest(avl')
    /\ UNCHANGED avlFixed

AvailabilityNext ==
    \/ AvailabilityCheck
    \/ AvailabilityReset

SpecAvailability == AvailabilityInit /\ [][AvailabilityNext]_vars

(***************************************************************************)
(* Claims about the classifier cascade                                     *)
(***************************************************************************)
CmbApplied == cmb_out # NoResult
CmbLabel == cmb_in[1]
CmbLlm == cmb_in[2]
CmbPattern == cmb_in[4]
PatternMethods == {"pattern_fallback", "pattern_override_llm_general",
                   "pattern_override_llm_low_confidence"}

\* C3: without a short-circuit, an oracle result "general" and a heuristic match of
\* a non-general intent at confidence >= 0.5 combine to the heuristic's intent at
\* confidence max(heuristic confidence, 0.7).
C3_HeuristicOverride ==
    (/\ CmbApplied
     /\ CmbLabel.confidence < 8000
     /\ CmbLlm.intent = General
     /\ CmbPattern.intent # General
     /\ CmbPattern.confidence >= 5000)
    => (/\ cmb_out.intent = CmbPattern.intent
        /\ cmb_out.confidence = Max(CmbPattern.confidence, 7000)
        /\ cmb_out.confidence >= 7000)

\* heuristic menu at 0.6, oracle general at 0.4: menu at 0.7
C3_Witness ==
    /\ CmbApplied
    /\ CmbLabel.confidence < 8000
    /\ CmbLlm = Result(General, 4000, "llm_classification")
    /\ CmbPattern = Result("menu_inquiry", 6000, "pattern_fallback")
    /\ cmb_out.intent = "menu_inquiry"
    /\ cmb_out.confidence = 7000

\* C4 (as claimed): a label match of confidence >= 0.8 is returned as the result of
\* recognize_intent_with_context, and neither the oracle nor the similarity
\* fallback is consulted.
C4_ShortCircuitReturnsLabelMatch ==
    (ipc = "done" /\ intent_collection_result.confidence >= 8000)
    => (/\ final_intent.intent = intent_collection_result.intent
        /\ final_intent.confidence = intent_collection_result.confidence
        /\ "oracle" \notin consulted
        /\ "vector" \notin consulted)

\* C5 (as claimed): with a non-general oracle intent, an oracle confidence >= 0.5
\* wins against every heuristic result, and a heuristic result of confidence
\* >= 0.5 is preferred only when the oracle confidence is below 0.5.
C5_OracleAtHalfWins ==
    (CmbApplied /\ CmbLabel.confidence < 8000 /\ CmbLlm.intent # General)
    => (/\ CmbLlm.confidence >= 5000 => cmb_out = CmbLlm
        /\ (cmb_out.method \in PatternMethods /\ CmbPattern.confidence >= 5000)
              => CmbLlm.confidence < 5000)

\* C5 (amended): with a non-general oracle intent, an oracle confidence >= 0.7 wins
\* against every heuristic result; an oracle confidence in [0.5, 0.7) wins unless
\* the heuristic matched a non-general intent at confidence >= 0.5, which is then
\* returned at max(heuristic confidence, 0.7); a heuristic result of confidence
\* >= 0.5 is preferred only when the oracle confidence is below 0.5, or below 0.7
\* and the heuristic intent is not general.
C5_OracleWinsFromSevenTenths ==
    (CmbApplied /\ CmbLabel.confidence < 8000 /\ CmbLlm.intent # General)
    => (/\ CmbLlm.confidence >= 7000 => cmb_out = CmbLlm
        /\ (CmbLlm.confidence >= 5000 /\ CmbLlm.confidence < 7000)
              => IF CmbPattern.intent # General /\ CmbPattern.confidence >= 5000
                 THEN /\ cmb_out.intent = CmbPattern.intent
                      /\ cmb_out.confidence = Max(CmbPattern.confidence, 7000)
                      /\ cmb_out.method \in PatternMethods
                 ELSE cmb_out = CmbLlm
        /\ (cmb_out.method \in PatternMethods /\ CmbPattern.confidence >= 5000)
              => \/ CmbLlm.confidence < 5000
                 \/ CmbLlm.confidence < 7000 /\ CmbPattern.intent # General)

\* oracle menu at 0.6 loses to heuristic restaurant_search at 0.63
C5_Witness ==
    /\ CmbApplied
    /\ CmbLabel.confidence < 8000
    /\ CmbLlm = Result("menu_inquiry", 6000, "llm_classification")
    /\ CmbPattern = Result("restaurant_search", 6300, "pattern_fallback")
    /\ cmb_out.intent = "restaurant_search"
    /\ cmb_out.confidence = 7000

NoProviderMatched ==
    /\ intent_collection_result.method
          \in {"intent_collection_no_match", "intent_collection_error"}
    /\ llm_intent # Unbound
    /\ llm_intent.confidence = 0
    /\ vector_intent.method \in {"vector_no_match", "vector_error"}
    /\ pattern_intent = Result(General, 3000, "pattern_fallback")

C6_StateInv ==
    /\ oracle_outcome \in OracleFailures
          => (llm_intent.confidence = 0 /\ llm_intent.intent = General)
    /\ ipc = "done" => (final_intent.intent \in Intents /\ final_intent.confidence >= 0)
    /\ (ipc = "done" /\ NoProviderMatched)
          => (final_intent.intent = General /\ final_intent.confidence = 3000)

\* C6: a failed oracle call counts as a provider of confidence 0, every started
\* recognition ends with an intent result, and when no provider matched the
\* result is general at confidence 0.3.
C6_CascadeAlwaysAnswers ==
    /\ []C6_StateInv
    /\ (ipc = "label") ~> (ipc = "done")

\* a request whose oracle call failed and in which nothing matched has ended
C6_Witness ==
    /\ ipc = "done"
    /\ oracle_outcome \in OracleFailures
    /\ NoProviderMatched
    /\ final_intent.intent = General
    /\ final_intent.confidence = 3000

(***************************************************************************)
(* Claims about the aggregator                                             *)
(***************************************************************************)
\* the restaurant a hit belongs to: read from the nested payload, or from the
\* hit's own restaurant_id key when the payload is not nested
HitOwner(entry) ==
    IF entry.metadata.present
    THEN ExtractRestaurantIdFromMetadata(entry.metadata)
    ELSE entry.restaurant_id

AllHits(sr) == sr.restaurants \o sr.menus \o sr.tables \o sr.image_url
OwnerIds(sr) == {HitOwner(AllHits(sr)[i]) : i \in DOMAIN AllHits(sr)} \ {NoId}

RECURSIVE OwnerScore(_, _)
OwnerScore(hits, owner) ==
    IF hits = <<>> THEN 0
    ELSE (IF HitOwner(Head(hits)) = owner THEN Max(0, One - Head(hits).distance) ELSE 0)
         + OwnerScore(Tail(hits), owner)

AggregatesOf(out, owner) ==
    {i \in DOMAIN out.restaurants : out.restaurants[i].id = owner}

\* C1 (as claimed): the aggregator yields exactly one aggregate per distinct owner
\* id among the hits of the four result lists, and its score is the sum of
\* max(0, 1 - distance) over every hit of that owner, whichever list it is in.
C1_ScoreSumsEveryCollection ==
    aggregated.called
    => /\ \A o \in OwnerIds(search_results) :
            /\ Cardinality(AggregatesOf(aggregated, o)) = 1
            /\ \A i \in AggregatesOf(aggregated, o) :
                  aggregated.restaurants[i]._matchScore
                     = Round4(OwnerScore(AllHits(search_results), o))
       /\ \A i \in DOMAIN aggregated.restaurants :
             aggregated.restaurants[i].id \in OwnerIds(search_results)

Range(f) == {f[i] : i \in DOMAIN f}
SeqToBag(f) == [x \in Range(f) |-> Cardinality({i \in DOMAIN f : f[i] = x})]

\* score and composition of one aggregate, sub-items as multisets
AggregateView(r) ==
    [id |-> r.id,
     restaurant |-> r.restaurant,
     score |-> r._matchScore,
     menus |-> SeqToBag(r._matchedMenus),
     services |-> SeqToBag(r._matchedServices),
     tables |-> SeqToBag(r._matchedTables),
     images |-> SeqToBag(r._matchedImages),
     sources |-> r._matchSources]
ResultView(out) == {AggregateView(out.restaurants[i]) : i \in DOMAIN out.restaurants}

\* C2: however the hits inside the result lists are permuted, and however often
\* the aggregator is run again, the set of aggregates (score, primary attributes,
\* matched sub-items per type, contributing collections) is the one of the
\* first run.
C2_OrderIndependentIdempotent ==
    (first_aggregated.called /\ aggregated.called)
    => /\ ResultView(aggregated) = ResultView(first_aggregated)
       /\ Len(aggregated.restaurants) = Len(first_aggregated.restaurants)
       /\ SeqToBag(aggregated.menus) = SeqToBag(first_aggregated.menus)
       /\ SeqToBag(aggregated.services) = SeqToBag(first_aggregated.services)
       /\ SeqToBag(aggregated.tables) = SeqToBag(first_aggregated.tables)
       /\ SeqToBag(aggregated.images) = SeqToBag(first_aggregated.images)

\* a run after a permutation: an aggregate fed by a restaurant hit and two dishes
\* of different distance lists its dishes in the other order
C2_Witness ==
    /\ first_aggregated.called
    /\ aggregated.called
    /\ \E i \in DOMAIN aggregated.restaurants, j \in DOMAIN first_aggregated.restaurants :
          /\ aggregated.restaurants[i].id = first_aggregated.restaurants[j].id
          /\ Len(aggregated.restaurants[i]._matchedMenus) = 2
          /\ aggregated.restaurants[i]._matchedMenus
                # first_aggregated.restaurants[j]._matchedMenus
          /\ "restaurants" \in aggregated.restaurants[i]._matchSources
          /\ aggregated.restaurants[i]._matchScore = 200000
    /\ ResultView(aggregated) = ResultView(first_aggregated)

(***************************************************************************)
(* Claims about the fan-out and handle_message                             *)
(***************************************************************************)
\* C7: when a query of the fan-out raises, the result map holds the empty list
\* for its collection and the hits of every other query as they were returned,
\* and _multi_collection_search does not raise.
C7_FailureIsolation ==
    /\ batch # "raised"
    /\ batch = "returned"
         => \A c \in FanOutCollections :
               /\ tasks[c].status = "raised" => search_results[c] = <<>>
               /\ tasks[c].status = "ok" => search_results[c] = tasks[c].hits

\* the menus query raised, the restaurants query returned a hit that is in the map
C7_Witness ==
    /\ batch = "returned"
    /\ tasks["menus"].status = "raised"
    /\ search_results["menus"] = <<>>
    /\ tasks["restaurants"].status = "ok"
    /\ tasks["restaurants"].hits # <<>>
    /\ search_results["restaurants"] = tasks["restaurants"].hits

\* C8: the aggregator runs only when every query of the fan-out has returned or
\* raised, and on the result map of all of them.
C8_JoinBarrier ==
    (hpc \in {"aggregate", "respond"} \/ aggregated.called)
    => /\ \A c \in FanOutCollections : tasks[c].status \in {"ok", "raised"}
       /\ search_results = MapResults(tasks)
       /\ batch = "returned"

\* an aggregate built after all four queries ended, one of them by raising
C8_Witness ==
    /\ aggregated.called
    /\ aggregated.restaurants # <<>>
    /\ \A c \in FanOutCollections : tasks[c].status \in {"ok", "raised"}
    /\ tasks["image_url"].status = "raised"
    /\ tasks["menus"].hits # <<>>

FanOutHandlers == {"complex", "restaurant_search", "general"}
\* every query of the request returned, with zero hits
EveryCollectionEmpty ==
    /\ fault = "none"
    /\ \/ /\ handler \in FanOutHandlers
          /\ \A c \in FanOutCollections : tasks[c] = Returned(<<>>)
       \/ /\ handler = "menu_inquiry"
          /\ search_results = NoSearchResults

\* C9 (as claimed): when every collection returns zero hits, each of the four
\* handler paths answers with the explicit empty-result response.
C9_EmptyResultOnEveryPath ==
    (hpc = "done" /\ EveryCollectionEmpty)
    => /\ response.kind = "empty_result"
       /\ ~aggregated.called \/ aggregated.restaurants = <<>>

\* C10: a request always ends with a MessageResponse: whichever step's fault
\* reaches handle_message, and whichever query, lookup or oracle call failed
\* inside a handler, no exception leaves handle_message.
C10_NeverPropagates ==
    /\ ~propagated
    /\ hpc = "done" => response.kind # "none"
    /\ (hpc = "done" /\ fault # "none") => response = EntryError

\* a request in which the conversation store raised, after a query had raised too
C10_Witness ==
    /\ hpc = "done"
    /\ fault = "store"
    /\ \E c \in FanOutCollections : tasks[c].status = "raised"
    /\ response = EntryError
    /\ ~propagated

(***************************************************************************)
(* Claims about the constraint filter                                      *)
(***************************************************************************)
FilterHits(sr) == UNION {Range(sr[c]) : c \in DOMAIN sr}

\* C11: the filter removes only hits classified as menu items; restaurant hits and
\* hits classified as service or table are returned untouched, whatever their
\* name or description says.
C11_OnlyMenuItemsFiltered ==
    flt_out.called =>
        /\ \A c \in DOMAIN flt_in \ {"menus"} : flt_out.results[c] = flt_in[c]
        /\ \A h \in FilterHits(flt_in) \ FilterHits(flt_out.results) :
              DetectCollectionItemType(h.metadata) = "menu"

\* C12: filtering what the filter returned, with the same forbidden tags, returns
\* it unchanged.
C12_FilterIdempotent ==
    flt_out.called => flt_out.results = flt_first.results

C12_Witness ==
    /\ flt_out.runs = "again"
    /\ flt_out.results = flt_first.results
    /\ flt_in # flt_out.results
    /\ Len(flt_out.results.menus) >= 1
    /\ Len(flt_in.menus) - Len(flt_out.results.menus) >= 1

(***************************************************************************)
(* Claims about the re-ranking menu search                                 *)
(***************************************************************************)
ItemIds(results) == {results[i].metadata.id : i \in DOMAIN results}
Reranked == rr_out.path = "reranked"

\* C13 (as stated): the ids semantic_menu_search_with_reasoning returns are exactly
\* the ids of the candidates it re-ranked.
C13_MembershipUnchanged ==
    Reranked => ItemIds(rr_out.results) = ItemIds(rr_results)

\* C13 (amended): re-ranking adds no item and drops a candidate only when its final
\* distance is not below the threshold or when limit candidates of at least its
\* score are returned; the returned items are in descending score order, each
\* with its boosted score capped at 1 and the matching distance.
C13_RerankDropsOnlyByThresholdAndLimit ==
    Reranked =>
        LET out == rr_out.results
        IN /\ ItemIds(out) \subseteq ItemIds(rr_results)
           /\ Len(out) <= RerankLimit
           /\ \A i \in DOMAIN rr_results :
                 LET b == Boosted(rr_profile, rr_results[i])
                 IN IF \E k \in DOMAIN out : out[k].metadata.id = b.metadata.id
                    THEN \E k \in DOMAIN out : out[k] = b /\ b.distance < RerankThreshold
                    ELSE \/ b.distance >= RerankThreshold
                         \/ /\ Len(out) = RerankLimit
                            /\ \A k \in DOMAIN out : out[k].score >= b.score
           /\ \A k \in 1..(Len(out) - 1) : out[k].score >= out[k + 1].score

C13_Witness ==
    /\ Reranked
    /\ Len(rr_out.results) = RerankLimit
    /\ Len(rr_results) > RerankLimit
    /\ \E i \in DOMAIN rr_results :
          /\ rr_results[i].metadata.id \notin ItemIds(rr_out.results)
          /\ Boosted(rr_profile, rr_results[i]).distance < RerankThreshold
    /\ \E k \in DOMAIN rr_out.results :
          /\ rr_out.results[k].boost_score > 0
          /\ rr_out.results[k].metadata.id # rr_results[k].metadata.id

(***************************************************************************)
(* Claims about the turn state                                             *)
(***************************************************************************)
\* the request has resolved its entities and has not written the turn state yet
Resolved(q) == q.pc \in {"handler", "store"}

\* C14: when the message holds a reference phrase, the resolved entities carry the
\* user's last restaurant id if the turn state has one; if it has none the
\* entities are the extracted ones, unchanged, and the request goes on.
C14_ReferenceResolution ==
    \A r \in Requests :
        LET q == treq[r]
            last == turn_states[q.user].last_restaurant_id
        IN Resolved(q) /\ q.msg.reference =>
              /\ q.outcome = "none"
              /\ IF last # NoId
                 THEN q.entities = [q.extracted EXCEPT !.restaurant_id = last]
                 ELSE q.entities = q.extracted

C14_Witness ==
    \E r \in Requests :
        LET q == treq[r]
            last == turn_states[q.user].last_restaurant_id
        IN /\ Resolved(q)
           /\ q.msg.reference
           /\ last # NoId
           /\ q.extracted.restaurant_id \notin {NoId, last}
           /\ q.entities.restaurant_id = last

\* the request has read its user's turn state (reference resolution or the general
\* handler's scoping) and has not reached its own write
InReadModifyWrite(q) ==
    /\ q.pc \in {"handler", "store"}
    /\ q.msg.reference \/ q.route = "general"

\* C15: while a request is between its read of the user's turn state and its
\* write, no step of another request changes that user's turn state.
C15_ReadModifyWriteExclusive ==
    [][\A r \in Requests :
          InReadModifyWrite(treq[r]) /\ treq'[r] = treq[r]
              => turn_states'[treq[r].user] = turn_states[treq[r].user]]_vars

\* the capacity a bounded store would have: one entry less than there are users
TurnStateCapacity == MaxUsers - 1

\* C16: the number of entries of turn_states never exceeds the capacity.
C16_TurnStatesBounded ==
    Cardinality({u \in Users : turn_states[u].present}) <= TurnStateCapacity

\* C17: a request that was cancelled, ended in the error path of handle_message or
\* whose handler failed internally has not changed turn_states.
C17_WrittenOnlyAfterSuccess ==
    \A r \in Requests :
        LET q == treq[r]
        IN q.pc = "done"
           /\ (q.outcome \in {"cancelled", "entry_error"} \/ q.handler_failed)
              => ~q.wrote


(***************************************************************************)
(* Aggregates and their owner ids                                          *)
(***************************************************************************)
\* a sub-item hit that names no restaurant: no "restaurant_id" in its metadata
\* and none among its own keys
Orphan(entry) ==
    /\ ~(entry.metadata.present /\ entry.metadata.restaurant_id # NoId)
    /\ entry.restaurant_id = NoId

WithoutOrphans(sr) ==
    [sr EXCEPT !.menus = SelectSeq(@, LAMBDA e : ~Orphan(e)),
               !.tables = SelectSeq(@, LAMBDA e : ~Orphan(e)),
               !.image_url = SelectSeq(@, LAMBDA e : ~Orphan(e))]

C19_BackfillEveryGroup ==
    aggregated.called
    => \A i \in DOMAIN aggregated.restaurants :
          LET r == aggregated.restaurants[i]
          IN "restaurants" \notin r._matchSources
             => /\ r.id \in MissingRestaurantIds(search_results)
                /\ r.id \in fetchable => r.restaurant = RestaurantPayload(r.id)


(***************************************************************************)
(* The verification stage                                                  *)
(***************************************************************************)
Adjusted(i, c) == Result(i, c, "verified_adjusted")

\* C20 (as claimed): the verification stage either returns the selected intent
\* and confidence unchanged or returns general_inquiry with confidence 0.5,
\* tagged as adjusted.
C20_MismatchDowngradesToGeneral ==
    [][(ipc = "verify" /\ ipc' = "done")
       => \/ final_intent' = final_intent
          \/ final_intent' = Adjusted(General, 5000)]_vars

\* C20 (amended): a rejected restaurant_search on a message with a menu keyword
\* becomes menu_inquiry at 0.8, a rejected menu_inquiry on a message with a
\* restaurant keyword and no menu keyword becomes restaurant_search at 0.7, a
\* restaurant_search or menu_inquiry whose data lookup finds nothing becomes
\* general_inquiry at 0.5, each tagged verified_adjusted; otherwise the
\* selected intent, confidence and method are returned unchanged.
C20_VerificationAdjusts ==
    [][(ipc = "verify" /\ ipc' = "done")
       => IF final_intent.intent = "restaurant_search" /\ imsg.menuKw
          THEN final_intent' = Adjusted("menu_inquiry", 8000)
          ELSE IF final_intent.intent = "menu_inquiry" /\ imsg.restKw /\ ~imsg.menuKw
          THEN final_intent' = Adjusted("restaurant_search", 7000)
          ELSE \/ final_intent' = final_intent
               \/ /\ final_intent.intent \in {"restaurant_search", "menu_inquiry"}
                  /\ final_intent' = Adjusted(General, 5000)]_vars

\* the stage has redirected a restaurant_search to menu_inquiry
C20_Witness ==
    /\ ipc = "done"
    /\ imsg.menuKw
    /\ final_intent = Adjusted("menu_inquiry", 8000)


(***************************************************************************)
(* Range of the recognised intent                                          *)
(***************************************************************************)
\* C21 (as claimed): every result recognize_intent_with_context returns has a
\* confidence in [0, 1] and an intent of the taxonomy.
C21_ResultInRange ==
    ipc = "done"
    => /\ final_intent.confidence \in 0..10000
       /\ final_intent.intent \in Intents


(***************************************************************************)
(* Claims about the exclusion set                                          *)
(***************************************************************************)
\* C22 (as claimed): when the profile oracle's reply cannot be parsed or its
\* call fails, the exclusion set of the request is empty and the filter
\* removes no hit, whatever the message contains.
C22_ParseFailureExcludesNothing ==
    (excl.pc = "done" /\ excl.reply.kind \in ReplyFailures)
    => /\ excl.forbidden_tags = {}
       /\ excl.filtered = excl.search_results


(***************************************************************************)
(* Claims about malformed payloads                                         *)
(***************************************************************************)
Malformed(entry) ==
    \/ entry.metadata.name = NotAString
    \/ entry.metadata.description = NotAString
    \/ (entry.metadata.id = NoId /\ entry.metadata.restaurant_id = NoId)

WellFormed(sr) == [sr EXCEPT !.menus = SelectSeq(@, LAMBDA e : ~Malformed(e))]

\* C23 (as claimed): a hit with a malformed payload is dropped alone: the request
\* does not end in the error response, and its filtered and aggregated hits are
\* those of the request without the malformed hits.
C23_MalformedHitDroppedAlone ==
    mal.pc = "done"
    => /\ mal.outcome = "data"
       /\ mal.aggregated =
             AggregateSearchResults(
                 FilterByForbiddenTags(WellFormed(mal.search_results),
                                       mal.forbidden_tags),
                 fetchable)


(***************************************************************************)
(* Liveness of the fan-out                                                 *)
(***************************************************************************)
\* C24 (as claimed): when the query of one collection never completes, the
\* fan-out still finishes: a request waiting in asyncio.gather eventually
\* leaves it.
C24_FanOutFinishes == (hpc = "search") ~> (hpc # "search")


(***************************************************************************)
(* Claims about the routing                                                *)
(***************************************************************************)
\* C25: a message with a venue cue, an availability cue and a cuisine or time
\* cue is routed to the composite search+availability handler whatever intent
\* was recognised, never to the plain restaurant_search handler.
C25_CompositeQueryRouted ==
    (/\ rt.pc = "done"
     /\ {"restaurant", "availability"} \subseteq rt.message
     /\ rt.message \cap {"cuisine", "time"} # {})
    => rt.handler = "complex"

\* a message with venue, availability and time cues recognised as
\* restaurant_search went to the composite handler
C25_Witness ==
    /\ rt.pc = "done"
    /\ rt.message = {"restaurant", "availability", "time"}
    /\ rt.intent = "restaurant_search"
    /\ rt.handler = "complex"


(***************************************************************************)
(* Claims about the per-collection searches                                *)
(***************************************************************************)
\* the hit as the search of the collection builds it from a point
HitOf(collection, p) ==
    IF collection \in {"restaurants", "menus"} THEN FormatResults(p) ELSE FlatResult(p)

\* C26: every hit returned by a per-collection search has a non-negative
\* distance equal to max(0, 1 - similarity score of its point) and below the
\* query's distance cutoff.
C26_HitDistanceWithinCutoff ==
    srch.pc = "done" =>
        \A i \in DOMAIN srch.hits :
            /\ srch.hits[i].distance >= 0
            /\ srch.hits[i].distance < srch.distance_threshold
            /\ \E j \in DOMAIN srch.points :
                  /\ srch.hits[i] = HitOf(srch.collection, srch.points[j])
                  /\ srch.hits[i].distance = Max(0, One - srch.points[j].score)

\* the same for search_restaurants and search_menus alone
C26_FormattedHitsWithinCutoff ==
    (srch.pc = "done" /\ srch.collection \in {"restaurants", "menus"}) =>
        \A i \in DOMAIN srch.hits :
            /\ srch.hits[i].distance >= 0
            /\ srch.hits[i].distance < srch.distance_threshold
            /\ \E j \in DOMAIN srch.points :
                  /\ srch.hits[i] = HitOf(srch.collection, srch.points[j])
                  /\ srch.hits[i].distance = Max(0, One - srch.points[j].score)


(***************************************************************************)
(* Claims about the feedback learning loop                                 *)
(***************************************************************************)
\* C27: after any sequence of handle_message, learn_from_interaction and
\* store_intent_feedback calls, no message resolved to general_inquiry is among
\* the stored successful patterns or the examples of an intent embedding.
C27_GeneralNeverLearned ==
    /\ \A p \in lrn.patterns : p.resolved # General
    /\ \A i \in LearnIntents : \A x \in lrn.examples[i] : x.resolved # General

\* the half of C27 about the stored successful patterns
C27_GeneralNeverAPattern == \A p \in lrn.patterns : p.resolved # General


(***************************************************************************)
(* Claims about the conversations collection                               *)
(***************************************************************************)
\* both retrievals return records of the asking user only, and nothing without a
\* user id
C28_OnlyOwnRecords ==
    \A w \in Runs :
        /\ \A i \in DOMAIN convs.recent[w] :
              convs.recent[w][i].user_id = convs.user_id
        /\ \A i \in DOMAIN convs.similar[w] :
              convs.similar[w][i].user_id = convs.user_id
        /\ convs.user_id = NoUser => convs.similar[w] = <<>>

\* C28: get_user_conversations_recent(u) and search_similar_conversations(q, u)
\* return only records stored with user_id = u, nothing without a user id, and
\* the recent conversations that make the context of u's intent recognition are
\* the same whatever the other users have stored.
C28_ContextIsolated ==
    /\ C28_OnlyOwnRecords
    /\ convs.user_id = ObservedUser => convs.recent["one"] = convs.recent["two"]


(***************************************************************************)
(* Claims about the scoping of a request by the turn state                 *)
(***************************************************************************)
\* C29: after any sequence of earlier turns, the last restaurant id of the turn
\* state becomes the owner filter of a request only when the message holds a
\* reference phrase; without one the request is searched unscoped by the turn
\* state, on every handler path, the general-inquiry path included.
C29_ScopedOnlyByReference ==
    \A r \in Requests :
        LET q == treq[r]
        IN Resolved(q) /\ ~q.msg.reference =>
              /\ q.entities = q.extracted
              /\ q.scope = NoId

\* the same on the paths other than the general-inquiry path
C29_OtherPathsScopedOnlyByReference ==
    \A r \in Requests :
        LET q == treq[r]
        IN Resolved(q) /\ ~q.msg.reference /\ q.route # "general" =>
              /\ q.entities = q.extracted
              /\ q.scope = NoId


(***************************************************************************)
(* Claims about the composite search + availability handler                *)
(***************************************************************************)
\* C30: in the composite path a venue is listed as having a free table exactly
\* when the backend's availability check reports availability for it; a venue the
\* backend reports available is never listed as unavailable.
C30_ListedFreeIffBackendAvailable ==
    avl.pc = "done" =>
        \A i \in DOMAIN avl.availability_results :
            avl.availability_results[i].has_availability
                <=> avl.available[avl.availability_results[i].restaurant]

\* no venue is listed as free that the backend reports full
C30_NeverListedFreeWhenFull ==
    avl.pc = "done" =>
        \A i \in DOMAIN avl.availability_results :
            avl.availability_results[i].has_availability
                => avl.available[avl.availability_results[i].restaurant]

====
